---- MODULE Spec2Model ----
(***************************************************************************)
(* Walk-forward HMM ensemble backtest: the worker pool (worker-pool.ts),   *)
(* the worker script (hmm-worker) and the controller loop (runBacktest).   *)
(*                                                                         *)
(* Two specifications share the pool and the workers:                      *)
(*   Spec      the pool driven by runBacktest, chunk after chunk;          *)
(*   PoolSpec  the pool driven by an arbitrary client that calls run and   *)
(*             terminate at any moment of the event loop.                  *)
(* The main thread is one event loop: a handler (a message handler, the    *)
(* continuation of an await) runs to completion, so each is one action.    *)
(* Worker threads run in parallel with it, so their steps are actions of   *)
(* their own.                                                              *)
(***************************************************************************)
EXTENDS Integers, Sequences, FiniteSets, TLC

\* ------------------------------------------------------------ bounds
MaxEnsembleSize == 3
MaxWorkers == 2
ChunkSize == 2
NumTargets == 3
MaxClientTasks == 4
NumStates == 2
NumObservations == 2
MaxT == 2
MaxIterations == 2

\* ------------------------------------------------------------ values
Null == 0

\* The element of a one-element set: { e(v) : v \in {x} } computes x once and
\* hands e its value.
Only(S) == CHOOSE x \in S : TRUE

NullPayout == -1
Workers == 1..MaxWorkers

\* A race record as far as the loop reads it: winningSlot (Null: pending)
\* and winningPayout in tenths (NullPayout: null).
RecordKinds ==
    { [winningSlot |-> Null, winningPayout |-> NullPayout],
      [winningSlot |-> 1, winningPayout |-> 50],
      [winningSlot |-> 2, winningPayout |-> NullPayout] }

\* getPayoutBucket: payout <= 5.5 -> 0, <= 9.6 -> 1, else 2.  A null payout
\* compares as the number 0.
ToNumber(payout) == IF payout = NullPayout THEN 0 ELSE payout

getPayoutBucket(payout, slot) ==
    IF ToNumber(payout) <= 55 THEN 0
    ELSE IF ToNumber(payout) <= 96 THEN 1
    ELSE 2

\* (winningSlot - 1) * 3 + getPayoutBucket(winningPayout, winningSlot)
ObservationCode(r) == (r.winningSlot - 1) * 3 + getPayoutBucket(r.winningPayout, r.winningSlot)

PendingRace == [winningSlot |-> Null, winningPayout |-> NullPayout]
Won == [winningSlot |-> 1, winningPayout |-> 50]
WonNoPayout == [winningSlot |-> 2, winningPayout |-> NullPayout]

\* previousMonthsRaces: the histories a run may start from.
InitHistories == { <<>>, <<WonNoPayout, Won, PendingRace>> }

RECURSIVE SeqsOf(_, _)
SeqsOf(S, n) ==
    IF n = 0 THEN { <<>> }
    ELSE { Append(s, x) : s \in SeqsOf(S, n - 1), x \in S }

RECURSIVE FilterMapCodes(_)
\* history.filter(slot !== null && payout !== null).map(code)
FilterMapCodes(h) ==
    IF h = <<>> THEN <<>>
    ELSE LET r == Head(h)
         IN  IF r.winningSlot # Null /\ r.winningPayout # NullPayout
             THEN <<ObservationCode(r)>> \o FilterMapCodes(Tail(h))
             ELSE FilterMapCodes(Tail(h))

Min(a, b) == IF a < b THEN a ELSE b

\* ------------------------------------------------------------ statistics
\* The running statistics as far as the slot-wide counts go: every slot's
\* occurrences (the same number for all slots), the wins per slot, and
\* lastWinningSlot.
NumSlots == 6

EmptyStats ==
    [ occurrences |-> 0, wins |-> [s \in 1..NumSlots |-> 0], lastWinningSlot |-> Null ]

\* Mutant: the running statistics are never updated.
updateStatsIgnored(stats, r) == stats

\* updateStats: nothing for a record without winningSlot or winningPayout;
\* else lastWinningSlot, occurrences++ and wins++ of the winning slot.
updateStats(stats, r) ==
    IF r.winningSlot = Null \/ r.winningPayout = NullPayout THEN stats
    ELSE [ occurrences     |-> stats.occurrences + 1,
           wins            |-> [stats.wins EXCEPT ![r.winningSlot] = @ + 1],
           lastWinningSlot |-> r.winningSlot ]

RECURSIVE CountRaces(_, _)
\* The accumulation loop of calculateStats: records without winningSlot or
\* winningPayout are skipped (continue).
CountRaces(stats, allRaces) ==
    IF allRaces = <<>> THEN stats
    ELSE LET r == Head(allRaces)
             counted == IF r.winningSlot = Null \/ r.winningPayout = NullPayout
                        THEN stats
                        ELSE [stats EXCEPT !.occurrences = @ + 1,
                                           !.wins[r.winningSlot] = @ + 1]
         IN  CountRaces(counted, Tail(allRaces))

\* calculateStats(allRaces): the counts, and lastWinningSlot taken from the
\* last record whatever it is (null for an empty list).
calculateStats(allRaces) ==
    [ CountRaces(EmptyStats, allRaces) EXCEPT
        !.lastWinningSlot = IF allRaces = <<>> THEN Null
                            ELSE allRaces[Len(allRaces)].winningSlot ]

\* ------------------------------------------------------------ state
VARIABLES
    ensembleSize,   \* config.ensembleSize
    previousMonthsRaces,     \* the records loaded as initial history
    targets,        \* currentMonthRaces: the records to walk through
    history,        \* history: the records known so far
    sequence,       \* sequence: the observation codes (a plain array)
    sharedBuf,      \* sequenceArray: the Int32Array over the SharedArrayBuffer
    bufWritten,     \* the cells of sharedBuf written by the latest step
    pc,             \* where the main thread's runBacktest (or the client) is
    i,              \* loop variable i: index of the chunk's first record
    j,              \* loop variable j: position inside the chunk
    ensemblePromises,        \* task ids of the current chunk's futures
    allEnsemblePredictions,  \* what the await delivered, one per promise
    aggregatedProbs,         \* the reused aggregation buffer
    decisions,      \* the calls of predictRace made so far
    currentStats,   \* currentStats: the running frequency statistics
    pool,           \* WorkerPool: idleWorkers, queue, currentTask per worker,
                    \*   inbox per worker (postMessage), dispatchLog (order of dispatch)
    outbox,         \* per worker: result messages posted, not yet handled
    terminated,     \* terminate() has been called
    payloads,       \* payloads[t]: the payload of task t (t: order of submission)
    future,         \* future[t]: the promise returned by run for task t
    failed,         \* tasks whose worker threw while executing them
    abandoned,      \* tasks queued or in flight when terminate() was called
    executed,       \* tasks a worker thread has started to execute
    outOfOrder,     \* a future was resolved while one submitted earlier was pending
    heap,           \* per worker thread: its module state (the static BufferPool,
                    \*   the buffers and HMM instances it has created)
    engine,         \* an HMM under test: its A, B, pi, At, what they were
                    \*   before the latest call, and that call
    randomPool      \* a RandomPool: its pool, its index, and what the latest
                    \*   call asked for, read and returned

vars == << ensembleSize, previousMonthsRaces, targets, history, sequence, sharedBuf, bufWritten, pc, i, j,
           ensemblePromises, allEnsemblePredictions, aggregatedProbs,
           decisions, currentStats, pool,
           outbox, terminated, payloads, future, failed, abandoned, executed, outOfOrder,
           heap, engine, randomPool >>

ctlVars == << ensembleSize, previousMonthsRaces, targets, history, sequence, sharedBuf, i, j,
              ensemblePromises, allEnsemblePredictions, aggregatedProbs,
              decisions, currentStats >>

TaskIds == 1..Len(payloads)

\* ------------------------------------------------------------ WorkerPool
\* constructor: every worker is pushed on idleWorkers, none has a currentTask.
NewPool ==
    [ idleWorkers |-> [w \in 1..MaxWorkers |-> w],
      queue       |-> <<>>,
      currentTask |-> [w \in Workers |-> Null],
      inbox       |-> [w \in Workers |-> <<>>],
      dispatchLog |-> <<>> ]

\* worker.postMessage(task): a terminated worker receives nothing.
PostMessage(inbox, w, t, dead) ==
    IF dead THEN inbox ELSE [inbox EXCEPT ![w] = Append(@, t)]

\* Mutant: the queue is read from its tail (queue.pop() for queue.shift()).
processQueueLifo(p, dead) ==
    IF Len(p.queue) > 0 /\ Len(p.idleWorkers) > 0
    THEN LET worker == p.idleWorkers[Len(p.idleWorkers)]
             t == p.queue[Len(p.queue)]
         IN  [ idleWorkers |-> SubSeq(p.idleWorkers, 1, Len(p.idleWorkers) - 1),
               queue       |-> SubSeq(p.queue, 1, Len(p.queue) - 1),
               currentTask |-> [p.currentTask EXCEPT ![worker] = t],
               inbox       |-> PostMessage(p.inbox, worker, t, dead),
               dispatchLog |-> Append(p.dispatchLog, t) ]
    ELSE p

\* Mutant: the worker is read from idleWorkers and left on it.
processQueuePeek(p, dead) ==
    IF Len(p.queue) > 0 /\ Len(p.idleWorkers) > 0
    THEN LET worker == p.idleWorkers[Len(p.idleWorkers)]
             t == Head(p.queue)
         IN  [ idleWorkers |-> p.idleWorkers,
               queue       |-> Tail(p.queue),
               currentTask |-> [p.currentTask EXCEPT ![worker] = t],
               inbox       |-> PostMessage(p.inbox, worker, t, dead),
               dispatchLog |-> Append(p.dispatchLog, t) ]
    ELSE p

\* processQueue: idleWorkers.pop(), queue.shift(), set currentTask, postMessage.
processQueue(p, dead) ==
    IF Len(p.queue) > 0 /\ Len(p.idleWorkers) > 0
    THEN LET worker == p.idleWorkers[Len(p.idleWorkers)]
             t == Head(p.queue)
         IN  [ idleWorkers |-> SubSeq(p.idleWorkers, 1, Len(p.idleWorkers) - 1),
               queue       |-> Tail(p.queue),
               currentTask |-> [p.currentTask EXCEPT ![worker] = t],
               inbox       |-> PostMessage(p.inbox, worker, t, dead),
               dispatchLog |-> Append(p.dispatchLog, t) ]
    ELSE p

\* Mutant: run only enqueues and leaves the dispatch to the next completion.
runEnqueueOnly(p, t, dead) == [p EXCEPT !.queue = Append(@, t)]

\* run(task): queue.push({task, resolve}); processQueue().
run(p, t, dead) == processQueue([p EXCEPT !.queue = Append(@, t)], dead)

RECURSIVE runAll(_, _, _)
\* Array.from({length: ensembleSize}, () => pool.run(...)): the calls in order.
runAll(p, ts, dead) ==
    IF ts = <<>> THEN p ELSE runAll(run(p, Head(ts), dead), Tail(ts), dead)

\* Mutant: the worker goes back to idle but the queue is not looked at.
handleMessageNoDispatch(p, worker, dead) ==
    IF p.currentTask[worker] # Null
    THEN [p EXCEPT !.currentTask[worker] = Null, !.idleWorkers = Append(@, worker)]
    ELSE p

\* handleMessage, the pool's part: if the worker has a currentTask, clear it,
\* push the worker on idleWorkers, (resolve), processQueue(); else nothing.
handleMessage(p, worker, dead) ==
    IF p.currentTask[worker] # Null
    THEN processQueue([p EXCEPT !.currentTask[worker] = Null,
                               !.idleWorkers = Append(@, worker)], dead)
    ELSE p

\* resolve(data.results) on a promise: the first call settles it.
resolve(f, results) ==
    [ state        |-> "resolved",
      value        |-> IF f.state = "pending" THEN results ELSE f.value,
      resolveCalls |-> f.resolveCalls + 1 ]

NewFuture == [state |-> "pending", value |-> <<>>, resolveCalls |-> 0]

\* ------------------------------------------------------------ worker thread
Seeds == {1, 2}

\* The probability vectors a model may answer with, in quarters.
VecA == <<1, 3>>
VecB == <<3, 1>>
ZeroVec == <<0, 0>>

\* new HMM(...); train(sequence, ...); predictSteps(sequence, steps): the
\* answer is fixed by the random initialisation (seed) and the observations,
\* and holds exactly `steps` vectors.
predictSteps(seed, obs, steps) ==
    [s \in 1..steps |-> IF (seed + s + Len(obs)) % 2 = 0 THEN VecA ELSE VecB]

\* ---- the worker thread's module state
\* A worker thread right after loading the script: BufferPool.pools is empty
\* and no Float64Array has been created.
\*   free     the pooled buffers; the stack of a size is the subsequence of
\*            the buffers of that size
\*   held     the buffers the running call has got and not released
\*   hmm      the HMM instance the handler's `hmm` refers to, named by the
\*            task whose handler constructed it (Null outside a handler)
\*   cached   an HMM instance referred to from module level (the script has
\*            no such reference: always Null)
\*   aliased  get has handed out a buffer that the running call already held
\*   reused   the running handler got a buffer that an earlier task's handler
\*            had acquired
\*   balance  the calls of get the running handler has made, less its calls
\*            of release
\*   overlap  after some get or release a buffer was in the pool and held
\* A buffer is [id, size, fresh, zero]; fresh: acquired by the running
\* handler; zero: every cell holds 0.
NewHeap ==
    [ allocated |-> 0, free |-> <<>>, held |-> <<>>, hmm |-> Null, cached |-> Null,
      aliased |-> FALSE, reused |-> FALSE, balance |-> 0,
      overlap |-> FALSE ]

RemoveAt(seq, k) == SubSeq(seq, 1, k - 1) \o SubSeq(seq, k + 1, Len(seq))

\* The index in free of the top of the stack of `size`, 0 if it is empty.
TopOf(free, size) ==
    LET ks == { k \in 1..Len(free) : free[k].size = size }
    IN  IF ks = {} THEN 0 ELSE CHOOSE k \in ks : \A m \in ks : m <= k

\* Some buffer is in the pool and held by the running call.
Overlap(free, held) ==
    \E k \in 1..Len(free), m \in 1..Len(held) : free[k].id = held[m].id

\* Mutant: get returns the top of the stack without popping it.
BufferPoolPeek(h, size) ==
    LET k == TopOf(h.free, size)
    IN  IF k > 0
        THEN [h EXCEPT !.held = Append(@, [h.free[k] EXCEPT !.fresh = TRUE]),
                       !.aliased = @ \/ \E m \in 1..Len(h.held) : h.held[m].id = h.free[k].id,
                       !.reused = @ \/ ~h.free[k].fresh,
                       !.balance = @ + 1,
                       !.overlap = TRUE]
        ELSE [h EXCEPT !.allocated = @ + 1,
                       !.held = Append(@, [id |-> h.allocated + 1, size |-> size,
                                           fresh |-> TRUE, zero |-> TRUE]),
                       !.balance = @ + 1]

\* BufferPool.get(size): pop the stack of that size if it holds a buffer,
\* else new Float64Array(size), which is zero-filled.
BufferPoolGet(h, size) ==
    LET k == TopOf(h.free, size)
    IN  IF k > 0
        THEN [h EXCEPT !.free = RemoveAt(@, k),
                       !.held = Append(@, [h.free[k] EXCEPT !.fresh = TRUE]),
                       !.aliased = @ \/ \E m \in 1..Len(h.held) : h.held[m].id = h.free[k].id,
                       !.reused = @ \/ ~h.free[k].fresh,
                       !.balance = @ + 1,
                       !.overlap = @ \/ Overlap(RemoveAt(h.free, k), Append(h.held, h.free[k]))]
        ELSE [h EXCEPT !.allocated = @ + 1,
                       !.held = Append(@, [id |-> h.allocated + 1, size |-> size,
                                           fresh |-> TRUE, zero |-> TRUE]),
                       !.balance = @ + 1]

\* BufferPool.release(buffer) of the k-th buffer the call holds: fill(0) and
\* push on the stack of its size.
BufferPoolRelease(h, k) ==
    [h EXCEPT !.free = Append(@, [h.held[k] EXCEPT !.zero = TRUE]),
              !.held = RemoveAt(@, k),
              !.balance = @ - 1,
              !.overlap = @ \/ Overlap(Append(h.free, h.held[k]), RemoveAt(h.held, k))]

\* Mutant: the worker script keeps the model of the thread's first task at
\* module level and uses it for every task.
newHMMCached(h, t) ==
    IF h.cached = Null THEN [h EXCEPT !.hmm = t, !.cached = t]
    ELSE [h EXCEPT !.hmm = h.cached]

\* const hmm = new HMM(numStates, numObservations): a new instance whose A, B,
\* pi, At are arrays of its own (new Float64Array, not pooled).
newHMM(h, t) == [h EXCEPT !.hmm = t]

\* The ways a call of train ends: the loop runs to its cap, the convergence
\* break, the collapse break, an exception. predictSteps returns or throws.
TrainExits == {"return", "converged", "collapse", "throw"}

\* The held buffers train has written to when it leaves the try block: alpha
\* only when the first forward pass collapses, alpha and beta when the E-step
\* throws, all four else.
WrittenAt(exit) ==
    IF exit = "collapse" THEN 1..1
    ELSE IF exit = "throw" THEN 1..2
    ELSE 1..4

\* The call writes into the buffers ks of those it holds.
WriteHeld(h, ks) ==
    [h EXCEPT !.held = [k \in 1..Len(@) |->
                           IF k \in ks THEN [@[k] EXCEPT !.zero = FALSE] ELSE @[k]]]

RECURSIVE GetEach(_, _)
\* BufferPool.get for each size of sizes, in order.
GetEach(h, sizes) ==
    IF sizes = <<>> THEN h
    ELSE Only({ GetEach(got, Tail(sizes)) : got \in {BufferPoolGet(h, Head(sizes))} })

RECURSIVE ReleaseEach(_, _)
\* BufferPool.release of the held buffers at the positions ks, in order, each
\* position counted after the releases before it.
ReleaseEach(h, ks) ==
    IF ks = <<>> THEN h
    ELSE Only({ ReleaseEach(left, Tail(ks)) : left \in {BufferPoolRelease(h, Head(ks))} })

\* Mutant: the buffers are released after the loop, outside any finally.
trainBuffersNoFinally(h, T, exit) ==
    IF T < 2 THEN h
    ELSE Only({ IF exit = "throw" THEN written
                ELSE ReleaseEach(written, << 1, 1, 1, 1 >>) :
                written \in {WriteHeld(GetEach(h, << T * NumStates, T * NumStates,
                                                     T * NumStates,
                                                     (T - 1) * NumStates * NumStates >>),
                                       WrittenAt(exit))} })

\* train as far as the pool goes: nothing for T < 2; else get alpha, beta,
\* gamma (T * N) and xi ((T - 1) * N * N), and, however the try block is
\* left, release them in the finally.
trainBuffers(h, T, exit) ==
    IF T < 2 THEN h
    ELSE Only({ ReleaseEach(written, << 1, 1, 1, 1 >>) :
                written \in {WriteHeld(GetEach(h, << T * NumStates, T * NumStates,
                                                     T * NumStates,
                                                     (T - 1) * NumStates * NumStates >>),
                                       WrittenAt(exit))} })

\* predictSteps as far as the pool goes: get stateDistribution and
\* nextStateDist (N); for a non-empty sequence get alpha (T * N) and release
\* it in the inner finally; release the two in the outer finally, however
\* the try blocks are left. An exception in the forward pass leaves alpha
\* written and the two others as they came.
predictBuffers(h, T, exit) ==
    IF T = 0
    THEN Only({ ReleaseEach(written, << 1, 1 >>) :
                written \in {WriteHeld(GetEach(h, << NumStates, NumStates >>),
                                       IF exit = "throw" THEN {} ELSE 1..2)} })
    ELSE Only({ ReleaseEach(written, << 3, 1, 1 >>) :
                written \in {WriteHeld(GetEach(h, << NumStates, NumStates, T * NumStates >>),
                                       IF exit = "throw" THEN 3..3 ELSE 1..3)} })

Stale(bufs) == [k \in 1..Len(bufs) |-> [bufs[k] EXCEPT !.fresh = FALSE]]

\* The handler is entered: nothing has been acquired by it yet.
handlerEnter(h) ==
    [h EXCEPT !.free = Stale(@), !.held = Stale(@), !.reused = FALSE,
              !.balance = 0]

\* The handler returns: its local `hmm` is gone.
handlerReturn(h) == [h EXCEPT !.hmm = Null]

\* The worker script's handler on the thread's module state, up to the
\* postMessage: new HMM, train, predictSteps.
onmessageHeap(h, T, t, exit) ==
    Only({ predictBuffers(trained, T, "return") :
           trained \in {trainBuffers(newHMM(handlerEnter(h), t), T, exit)} })

\* The handler when it throws: in the constructor, in train, or in
\* predictSteps after train has returned.
onmessageThrows(h, T, t, at) ==
    IF at = "new" THEN handlerEnter(h)
    ELSE IF at = "train" THEN trainBuffers(newHMM(handlerEnter(h), t), T, "throw")
    ELSE Only({ predictBuffers(trained, T, "throw") :
                trained \in {trainBuffers(newHMM(handlerEnter(h), t), T, "return")} })

\* Mutant: training patches its observation argument in place.
ObsCellsWrittenInPlace(len) == 1..len

\* The cells of its observation argument a worker writes: train and
\* predictSteps only read obs.
ObsCellsWritten(len) == {}

\* The Int32Array view a payload carries, as a reader finds it now.
View(t) == SubSeq(sharedBuf, 1, payloads[t].len)

\* self.onmessage of the worker script: read event.data, build a new HMM,
\* train it on the sequence, predictSteps, self.postMessage({id, results}).
WorkerRun(w) ==
    /\ ~terminated
    /\ pool.inbox[w] # <<>>
    /\ \E t \in {Head(pool.inbox[w])} :
          /\ pool' = [pool EXCEPT !.inbox[w] = Tail(@)]
          /\ executed' = executed \cup {t}
          /\ bufWritten' = ObsCellsWritten(payloads[t].len)
          /\ \E h \in { onmessageHeap(heap[w], Len(View(t)), t, exit) :
                         exit \in TrainExits \ {"throw"} } :
                /\ heap' = [heap EXCEPT ![w] = handlerReturn(h)]
                /\ \E seed \in Seeds :
                      outbox' = [outbox EXCEPT ![w] =
                          Append(@, [results |-> predictSteps(seed, View(t), payloads[t].steps),
                                     forTask |-> t, obs |-> View(t), hmm |-> h.hmm])]
    /\ UNCHANGED << ctlVars, pc, terminated, payloads, future, failed, abandoned, outOfOrder,
                    engine >>
    /\ UNCHANGED randomPool

\* The task throws inside the worker, in the call of train: no message is
\* posted.  The pool sets no error handler on its workers, so nothing of the
\* pool changes.
WorkerFail(w) ==
    /\ ~terminated
    /\ pool.inbox[w] # <<>>
    /\ \E t \in {Head(pool.inbox[w])} :
          /\ failed' = failed \cup {t}
          /\ executed' = executed \cup {t}
          /\ \E h \in {onmessageThrows(heap[w], Len(View(t)), t, "train")} :
                heap' = [heap EXCEPT ![w] = handlerReturn(h)]
    /\ pool' = [pool EXCEPT !.inbox[w] = Tail(@)]
    /\ bufWritten' = {}
    /\ UNCHANGED << ctlVars, pc, outbox, terminated, payloads, future, abandoned, outOfOrder >>
    /\ UNCHANGED engine
    /\ UNCHANGED randomPool

\* ------------------------------------------------------------ main thread
\* The event loop is free to run a handler.
MainIdle == pc \in {"await", "done", "client"}

\* worker.onmessage = (e) => this.handleMessage(worker, e.data)
HandleMessage(w) ==
    /\ MainIdle
    /\ outbox[w] # <<>>
    /\ LET data == Head(outbox[w])
           t == pool.currentTask[w]
       IN  /\ pool' = handleMessage(pool, w, terminated)
           /\ future' = IF t # Null
                        THEN [future EXCEPT ![t] = resolve(@, data.results)]
                        ELSE future
    /\ outbox' = [outbox EXCEPT ![w] = Tail(@)]
    /\ bufWritten' = {}
    /\ outOfOrder' = (outOfOrder \/ \E u \in TaskIds :
                          /\ u < pool.currentTask[w]
                          /\ future[u].state = "pending")
    /\ UNCHANGED << ctlVars, pc, terminated, payloads, failed, abandoned, executed >>
    /\ UNCHANGED << heap, engine >>
    /\ UNCHANGED randomPool

\* terminate(): for (const w of this.workers) w.terminate().  The queue, the
\* idle list and the currentTask fields are left as they are.
InFlightOrQueued ==
    { t \in TaskIds : /\ future[t].state = "pending"
                      /\ \/ \E k \in 1..Len(pool.queue) : pool.queue[k] = t
                         \/ \E w \in Workers : pool.currentTask[w] = t }

QueuedTasks == { pool.queue[k] : k \in 1..Len(pool.queue) }

terminate ==
    /\ terminated' = TRUE
    /\ abandoned' = [inFlight |-> InFlightOrQueued \ QueuedTasks, queued |-> QueuedTasks]

\* A message posted before terminate() and not yet handled may be discarded
\* by the runtime instead of being delivered.
DropMessage(w) ==
    /\ terminated
    /\ outbox[w] # <<>>
    /\ outbox' = [outbox EXCEPT ![w] = Tail(@)]
    /\ bufWritten' = {}
    /\ UNCHANGED << ctlVars, pc, pool, terminated, payloads, future, failed, abandoned, executed, outOfOrder >>
    /\ UNCHANGED << heap, engine >>
    /\ UNCHANGED randomPool

\* ------------------------------------------------------------ runBacktest
\* const chunk = currentMonthRaces.slice(i, i + chunkSize)
Chunk(start) == SubSeq(targets, start + 1, Min(start + ChunkSize, Len(targets)))

\* Mutant: the whole pre-allocated array is handed over, not the subarray.
ViewLenWholeBuffer == Len(sharedBuf)

\* sequenceArray.subarray(0, sequence.length): the length of the view.
ViewLen == Min(Len(sequence), Len(sharedBuf))

\* currentSequenceView.set(sequence)
SetView(buf, seq) ==
    [k \in 1..Len(buf) |-> IF k <= Len(seq) THEN seq[k] ELSE buf[k]]

\* Mutant: every task asks for chunkSize steps, also for a short last chunk.
PayloadFixedSteps(start) == [len |-> ViewLen, steps |-> ChunkSize, chunk |-> start]

\* The payload of one pool.run call of the chunk starting at `start`.
Payload(start) == [len |-> ViewLen, steps |-> Len(Chunk(start)), chunk |-> start]

\* Mutant: the await continues as soon as one future is resolved (Promise.any).
PromiseAnyReady(ps) == \E e \in 1..Len(ps) : future[ps[e]].state = "resolved"

\* Mutant: the await looks at the first future only.
PromiseFirstReady(ps) == future[ps[1]].state = "resolved"

\* await Promise.all(ensemblePromises) continues once every future is resolved.
PromiseAllReady(ps) == \A e \in 1..Len(ps) : future[ps[e]].state = "resolved"

\* The promises of the iteration before are out of scope: nothing can read
\* their values any more.
Unreferenced(f) == [f EXCEPT !.value = <<>>]

\* Loop head with i < length: write the view, submit ensembleSize tasks, await.
ChunkStart ==
    /\ pc = "loop"
    /\ i < Len(targets)
    /\ LET ids == [e \in 1..ensembleSize |-> Len(payloads) + e]
       IN  /\ sharedBuf' = SetView(sharedBuf, sequence)
           /\ bufWritten' = 1..ViewLen
           /\ payloads' = payloads \o [e \in 1..ensembleSize |-> Payload(i)]
           /\ future' = [t \in DOMAIN future |-> Unreferenced(future[t])]
                        \o [e \in 1..ensembleSize |-> NewFuture]
           /\ pool' = runAll(pool, ids, terminated)
           /\ ensemblePromises' = ids
    /\ pc' = "await"
    /\ UNCHANGED << ensembleSize, previousMonthsRaces, targets, history, sequence, i, j, allEnsemblePredictions,
                    aggregatedProbs, decisions, currentStats, outbox, terminated, failed, abandoned, executed >>
    /\ outOfOrder' = FALSE
    /\ UNCHANGED << heap, engine >>
    /\ UNCHANGED randomPool

\* The await continues: allEnsemblePredictions holds the futures' values.
AwaitResume ==
    /\ pc = "await"
    /\ PromiseAllReady(ensemblePromises)
    /\ allEnsemblePredictions' =
           [e \in 1..Len(ensemblePromises) |-> future[ensemblePromises[e]].value]
    /\ j' = 0
    /\ pc' = "decide"
    /\ bufWritten' = {}
    /\ UNCHANGED << ensembleSize, previousMonthsRaces, targets, history, sequence, sharedBuf, i, ensemblePromises,
                    aggregatedProbs, decisions, currentStats, pool, outbox, terminated, payloads, future,
                    failed, abandoned, executed, outOfOrder >>
    /\ UNCHANGED << heap, engine >>
    /\ UNCHANGED randomPool

\* Mutant: the aggregation buffer is not cleared between records.
fillSkipped(buf, v) == buf

\* aggregatedProbs.fill(0)
fill(buf, v) == [k \in DOMAIN buf |-> v]

\* allEnsemblePredictions[e][j] is present (the `if (stepProbs)` test).
HasStep(e, pos) == pos + 1 \in DOMAIN allEnsemblePredictions[e]

RECURSIVE SumStep(_, _, _)
\* Sum over e = 1..n of stepProbs[k] for the members that have position pos;
\* each term carries the weight invEnsembleSize = 1 / ensembleSize.
SumStep(n, pos, k) ==
    IF n = 0 THEN 0
    ELSE SumStep(n - 1, pos, k)
         + (IF HasStep(n, pos) THEN allEnsemblePredictions[n][pos + 1][k] ELSE 0)

\* aggregatedProbs after fill(0) and the averaging loop, as numerators over
\* ensembleSize.
Aggregate(pos) ==
    [k \in DOMAIN ZeroVec |->
        fill(aggregatedProbs, 0)[k] + SumStep(Len(allEnsemblePredictions), pos, k)]

Contributions(pos) ==
    Cardinality({ e \in 1..Len(allEnsemblePredictions) : HasStep(e, pos) })

\* aggregatedProbs.fill(0), the averaging loop and the call of predictRace.
Decide ==
    /\ pc = "decide"
    /\ aggregatedProbs' = Aggregate(j)
    /\ decisions' = Append(decisions,
           [ race            |-> i + j,
             contributions   |-> Contributions(j),
             promises        |-> ensemblePromises,
             seqLen          |-> Len(sequence),
             histLen         |-> Len(history),
             stats           |-> currentStats ])
    /\ pc' = "reveal"
    /\ bufWritten' = {}
    /\ UNCHANGED << ensembleSize, previousMonthsRaces, targets, history, sequence, sharedBuf, i, j, ensemblePromises,
                    allEnsemblePredictions, currentStats, pool, outbox, terminated, payloads,
                    future, failed, abandoned, executed, outOfOrder >>
    /\ UNCHANGED << heap, engine >>
    /\ UNCHANGED randomPool

\* Mutant: a pending record is pushed like any other.
pushRevealedAlways(seq, currentRace) == Append(seq, ObservationCode(currentRace))

\* Mutant: the sequence is kept as a sliding window.
pushRevealedWindow(seq, currentRace) ==
    IF currentRace.winningSlot # Null
    THEN (IF seq = <<>> THEN <<>> ELSE Tail(seq)) \o <<ObservationCode(currentRace)>>
    ELSE seq

\* Mutant: the code of a resolved record is pushed twice.
pushRevealedTwice(seq, currentRace) ==
    IF currentRace.winningSlot # Null
    THEN seq \o <<ObservationCode(currentRace), ObservationCode(currentRace)>>
    ELSE seq

\* if (!isPending) sequence.push((winningSlot - 1) * 3 + bucket)
pushRevealed(seq, currentRace) ==
    IF currentRace.winningSlot # Null
    THEN Append(seq, ObservationCode(currentRace))
    ELSE seq

\* if (!isPending) updateStats(currentStats, currentRace, config)
revealStats(stats, currentRace) ==
    IF currentRace.winningSlot # Null THEN updateStats(stats, currentRace) ELSE stats

\* Mutant: only resolved records are kept in history.
pushHistoryResolvedOnly(h, currentRace) ==
    IF currentRace.winningSlot # Null THEN Append(h, currentRace) ELSE h

\* history.push(currentRace)
pushHistory(h, currentRace) == Append(h, currentRace)

\* if (!isPending) { sequence.push(code); updateStats(...) };
\* history.push(currentRace); then the next record, or the next chunk.
Reveal ==
    /\ pc = "reveal"
    /\ LET currentRace == targets[i + j + 1]
       IN  /\ sequence' = pushRevealed(sequence, currentRace)
           /\ currentStats' = revealStats(currentStats, currentRace)
           /\ history' = pushHistory(history, currentRace)
    /\ IF j + 1 < Len(Chunk(i))
       THEN /\ j' = j + 1
            /\ i' = i
            /\ pc' = "decide"
            /\ UNCHANGED allEnsemblePredictions
       ELSE /\ j' = j + 1
            /\ i' = i + ChunkSize
            /\ pc' = "loop"
            /\ allEnsemblePredictions' = <<>>
    /\ bufWritten' = {}
    /\ UNCHANGED << ensembleSize, previousMonthsRaces, targets, sharedBuf, ensemblePromises, aggregatedProbs,
                    decisions, pool, outbox, terminated, payloads, future,
                    failed, abandoned, executed, outOfOrder >>
    /\ UNCHANGED << heap, engine >>
    /\ UNCHANGED randomPool

\* Loop exit: pool.terminate().
Finish ==
    /\ pc = "loop"
    /\ i >= Len(targets)
    /\ terminate
    /\ pc' = "done"
    /\ bufWritten' = {}
    /\ UNCHANGED << ctlVars, pool, outbox, payloads, future, failed, executed, outOfOrder >>
    /\ UNCHANGED << heap, engine >>
    /\ UNCHANGED randomPool

\* ------------------------------------------------------------ a free client
ClientRun ==
    /\ pc = "client"
    /\ Len(payloads) < MaxClientTasks
    /\ payloads' = Append(payloads, [len |-> 0, steps |-> 1, chunk |-> 0])
    /\ future' = Append(future, NewFuture)
    /\ pool' = run(pool, Len(payloads) + 1, terminated)
    /\ bufWritten' = {}
    /\ UNCHANGED << ctlVars, pc, outbox, terminated, failed, abandoned, executed, outOfOrder >>
    /\ UNCHANGED << heap, engine >>
    /\ UNCHANGED randomPool

ClientTerminate ==
    /\ pc = "client"
    /\ ~terminated
    /\ terminate
    /\ bufWritten' = {}
    /\ UNCHANGED << ctlVars, pc, pool, outbox, payloads, future, failed, executed, outOfOrder >>
    /\ UNCHANGED << heap, engine >>
    /\ UNCHANGED randomPool

\* ------------------------------------------------------------ HMM engine
\* Numbers of the engine are fixed point: the integer x stands for x / Scale,
\* and a product or quotient is rounded down to a multiple of 1 / Scale (the
\* code's doubles round to 53 bits and underflow to 0 below 5e-324).
\* A, B, pi, At are kept as rows (A[si][sj] for the flat A[si * N + sj]); states
\* and symbols count from 1, so symbol o of the code is column o + 1.
Scale == 30000

\* The sentinel for an unknown observation.
Sentinel == -1

\* 1e-20: the substitute for a zero denominator.
Epsilon == 1

\* 1e-10: the least value the constructor draws.
MinDraw == 4

\* -Infinity as a log-likelihood.
NegInfinity == -1000000

\* NaN or an infinity: what a division by zero, and all arithmetic on its
\* result, gives.
Undefined == -2000000

States == 1..NumStates
Symbols == 1..NumObservations

StatesOf(hmm) == 1..hmm.numStates
SymbolsOf(hmm) == 1..hmm.numObservations

Mul(a, b) == IF a = Undefined \/ b = Undefined THEN Undefined ELSE (a * b) \div Scale

\* 1.0 / x
Recip(x) == IF x = 0 \/ x = Undefined THEN Undefined ELSE (Scale * Scale) \div x

Plus(a, b) == IF a = Undefined \/ b = Undefined THEN Undefined ELSE a + b

Abs(x) == IF x < 0 THEN -x ELSE x

RECURSIVE SumTo(_, _)
\* f[1] + ... + f[n]
SumTo(f, n) == IF n = 0 THEN 0 ELSE Plus(SumTo(f, n - 1), f[n])

RowSum(row) == SumTo(row, Len(row))

\* Math.log(x): -Infinity at 0, ln(2x) - ln 2 below one half, 2(x-1)/(x+1) above.
Ln2 == 20794

RECURSIVE Ln(_)
Ln(x) ==
    IF x <= 0 THEN NegInfinity
    ELSE IF 2 * x < Scale THEN Ln(2 * x) - Ln2
    ELSE (2 * (x - Scale) * Scale) \div (x + Scale)

\* logLikelihood += Math.log(rowSum)
AddLog(logLikelihood, x) ==
    IF logLikelihood = NegInfinity \/ x = NegInfinity THEN NegInfinity
    ELSE logLikelihood + x

\* The values rng.next() returns, as a cycle entered at `seed`.
RandomDraws == << 7500, 0, 22500, 15000, 27500 >>

rngNext(seed, k) == RandomDraws[((seed + k) % Len(RandomDraws)) + 1]

\* Mutant: the draw is used as it comes.
fillRandomUnclamped(seed, from, n) ==
    LET vals == [k \in 1..n |-> rngNext(seed, from + k - 1)]
        sum == RowSum(vals)
    IN  IF sum > 0 THEN [k \in 1..n |-> Mul(vals[k], Recip(sum))] ELSE vals

\* fillRandomNormalized(arr) on the draws from..from+n-1: every value is
\* Math.max(rng.next(), 1e-10), then each is multiplied by 1 / sum.
fillRandomNormalized(seed, from, n) ==
    LET vals == [k \in 1..n |-> IF rngNext(seed, from + k - 1) > MinDraw
                                THEN rngNext(seed, from + k - 1) ELSE MinDraw]
        sum == RowSum(vals)
    IN  IF sum > 0 THEN [k \in 1..n |-> Mul(vals[k], Recip(sum))] ELSE vals

\* The transpose of the N x N matrix A.
Transposed(A, N) == [sj \in 1..N |-> [si \in 1..N |-> A[si][sj]]]

\* Mutant: the cached transpose is left as it is.
updateTransposedASkipped(hmm) == hmm

\* updateTransposedA: At[sj * N + si] = A[si * N + sj]
updateTransposedA(hmm) == [hmm EXCEPT !.At = Transposed(hmm.A, hmm.numStates)]

\* initializeProbabilities fills pi, then row si of A and row si of B for each
\* si in turn, and updates the transpose.
initializeProbabilities(hmm, seed) ==
    LET N == hmm.numStates
        M == hmm.numObservations
        rowStart(si) == N + (si - 1) * (N + M)
    IN  updateTransposedA(
            [hmm EXCEPT
               !.pi = fillRandomNormalized(seed, 0, N),
               !.A  = [si \in 1..N |-> fillRandomNormalized(seed, rowStart(si), N)],
               !.B  = [si \in 1..N |-> fillRandomNormalized(seed, rowStart(si) + N, M)]])

\* new HMM(numStates, numObservations): zeroed arrays, then
\* initializeProbabilities with the generator in state `seed`.
HMM(seed, numStates, numObservations) ==
    initializeProbabilities(
        [ numStates       |-> numStates,
          numObservations |-> numObservations,
          A  |-> [si \in 1..numStates |-> [sj \in 1..numStates |-> 0]],
          B  |-> [si \in 1..numStates |-> [k \in 1..numObservations |-> 0]],
          pi |-> [si \in 1..numStates |-> 0],
          At |-> [sj \in 1..numStates |-> [si \in 1..numStates |-> 0]] ],
        seed)

\* Mutant: an unknown observation is taken as equally likely in every state
\* and symbol.
EmissionUniform(hmm, sj, o) ==
    IF o = Sentinel THEN Scale \div hmm.numObservations ELSE hmm.B[sj][o + 1]

\* emissionProb: 1.0 for the sentinel, else B[sj * M + o].
Emission(hmm, sj, o) == IF o = Sentinel THEN Scale ELSE hmm.B[sj][o + 1]

ScaleRow(row, inv) == [k \in 1..Len(row) |-> Mul(row[k], inv)]

\* T rows of N zeros: a buffer as BufferPool.get hands it out.
ZeroRows(T, N) == [t \in 1..T |-> [k \in 1..N |-> 0]]

\* The unscaled row t of alpha, from pi for t = 1 and from row t - 1 and the
\* cached transpose else.
ForwardRow(hmm, alpha, obs, t) ==
    IF t = 1
    THEN [si \in StatesOf(hmm) |-> Mul(hmm.pi[si], Emission(hmm, si, obs[1]))]
    ELSE [sj \in StatesOf(hmm) |->
            Mul(SumTo([si \in StatesOf(hmm) |-> Mul(alpha[t - 1][si], hmm.At[sj][si])],
                      hmm.numStates),
                Emission(hmm, sj, obs[t]))]

\* if (rowSum <= 0) return -Infinity
rowCollapsed(rowSum) == rowSum # Undefined /\ rowSum <= 0

RECURSIVE ForwardFrom(_, _, _, _, _)
\* The time loop of computeForward from row t on: a row sum <= 0 returns
\* -Infinity and leaves the row unscaled. zeroRow is the row whose sum was not
\* positive, 0 if there was none.
ForwardFrom(hmm, obs, t, alpha, logLikelihood) ==
    IF t > Len(obs)
    THEN [alpha |-> alpha, logLikelihood |-> logLikelihood, zeroRow |-> 0]
    ELSE Only({ IF rowCollapsed(RowSum(row))
                THEN [alpha |-> [alpha EXCEPT ![t] = row],
                      logLikelihood |-> NegInfinity, zeroRow |-> t]
                ELSE Only({ ForwardFrom(hmm, obs, t + 1, scaled,
                                        AddLog(logLikelihood, Ln(RowSum(row)))) :
                            scaled \in {[alpha EXCEPT ![t] = ScaleRow(row, Recip(RowSum(row)))]} }) :
                row \in {ForwardRow(hmm, alpha, obs, t)} })

\* computeForward(obs, alpha), for a sequence of length >= 1. staleRead: the
\* pass read At (it got to the second row) while At was not the transpose of A.
computeForward(hmm, obs, alpha) ==
    Only({ [ alpha         |-> f.alpha,
             logLikelihood |-> f.logLikelihood,
             zeroRow       |-> f.zeroRow,
             staleRead     |-> /\ Len(obs) >= 2
                               /\ f.zeroRow # 1
                               /\ hmm.At # Transposed(hmm.A, hmm.numStates) ] :
           f \in {ForwardFrom(hmm, obs, 1, alpha, 0)} })

\* if (denom === 0) denom = 1e-20
Denominator(sum) == IF sum = 0 THEN Epsilon ELSE sum

RECURSIVE BackwardFrom(_, _, _, _)
\* The time loop of computeBackward from row t down to row 1.
BackwardFrom(hmm, obs, t, beta) ==
    IF t < 1 THEN beta
    ELSE Only({ Only({ BackwardFrom(hmm, obs, t - 1, scaled) :
                       scaled \in {[beta EXCEPT
                                      ![t] = ScaleRow(row, Recip(Denominator(RowSum(row))))]} }) :
                row \in {[si \in StatesOf(hmm) |->
                            SumTo([sj \in StatesOf(hmm) |->
                                     Mul(Mul(hmm.A[si][sj], Emission(hmm, sj, obs[t + 1])),
                                         beta[t + 1][sj])], hmm.numStates)]} })

\* Mutant: the last row of beta is left as the buffer came.
computeBackwardLastKept(hmm, obs, beta) == BackwardFrom(hmm, obs, Len(obs) - 1, beta)

\* computeBackward(obs, beta): the last row is 1, the others are scaled sums.
computeBackward(hmm, obs, beta) ==
    Only({ BackwardFrom(hmm, obs, Len(obs) - 1, last) :
           last \in {[beta EXCEPT ![Len(obs)] = [si \in StatesOf(hmm) |-> Scale]]} })

\* xi of the pair (t, t + 1) before it is divided by its sum.
XiRaw(hmm, obs, alpha, beta, t) ==
    [si \in StatesOf(hmm) |-> [sj \in StatesOf(hmm) |->
        Mul(Mul(Mul(alpha[t][si], hmm.A[si][sj]), Emission(hmm, sj, obs[t + 1])),
            beta[t + 1][sj])]]

\* xi[t] for t < T: the raw values times 1 / denom (1e-20 for a zero denom).
Xi(hmm, obs, alpha, beta) ==
    [t \in 1..(Len(obs) - 1) |->
        Only({ [si \in StatesOf(hmm) |->
                  ScaleRow(raw[si],
                           Recip(Denominator(SumTo([sk \in StatesOf(hmm) |-> RowSum(raw[sk])],
                                                   hmm.numStates))))] :
               raw \in {XiRaw(hmm, obs, alpha, beta, t)} })]

\* gamma[t][si]: the row sum of xi[t][si] for t < T, the scaled alpha for t = T.
Gamma(obs, alpha, xi) ==
    [t \in 1..Len(obs) |->
        IF t < Len(obs)
        THEN [si \in 1..Len(alpha[t]) |-> RowSum(xi[t][si])]
        ELSE ScaleRow(alpha[t], Recip(Denominator(RowSum(alpha[t]))))]

\* Mutant: the positions that hold the sentinel count in the denominator of B.
MStepCountingSentinel(hmm, obs, xi, gamma) ==
    LET T == Len(obs)
        N == hmm.numStates
        denomA(si) == Denominator(SumTo([t \in 1..(T - 1) |-> gamma[t][si]], T - 1))
        denomB(sj) == Denominator(SumTo([t \in 1..T |-> gamma[t][sj]], T))
    IN  updateTransposedA(
            [hmm EXCEPT
               !.pi = gamma[1],
               !.A  = [si \in 1..N |-> [sj \in 1..N |->
                        Mul(SumTo([t \in 1..(T - 1) |-> xi[t][si][sj]], T - 1),
                            Recip(denomA(si)))]],
               !.B  = [sj \in 1..N |-> [k \in SymbolsOf(hmm) |->
                        Mul(SumTo([t \in 1..T |->
                                     IF obs[t] = k - 1 THEN gamma[t][sj] ELSE 0], T),
                            Recip(denomB(sj)))]]])

\* The M-step: pi from gamma[0], each row of A from xi over gamma, each row
\* of B from the gamma of the positions that hold the symbol over the gamma
\* of the positions that hold any symbol; then the transpose.
MStep(hmm, obs, xi, gamma) ==
    LET T == Len(obs)
        N == hmm.numStates
        denomA(si) == Denominator(SumTo([t \in 1..(T - 1) |-> gamma[t][si]], T - 1))
        denomB(sj) == Denominator(SumTo([t \in 1..T |->
                                           IF obs[t] # Sentinel THEN gamma[t][sj] ELSE 0], T))
    IN  updateTransposedA(
            [hmm EXCEPT
               !.pi = gamma[1],
               !.A  = [si \in 1..N |-> [sj \in 1..N |->
                        Mul(SumTo([t \in 1..(T - 1) |-> xi[t][si][sj]], T - 1),
                            Recip(denomA(si)))]],
               !.B  = [sj \in 1..N |-> [k \in SymbolsOf(hmm) |->
                        Mul(SumTo([t \in 1..T |->
                                     IF obs[t] = k - 1 THEN gamma[t][sj] ELSE 0], T),
                            Recip(denomB(sj)))]]])

\* Mutant: the loop runs one iteration past the cap.
loopDonePastCap(iter, iterations) == iter > iterations

\* The loop condition of train, negated: iter < iterations fails.
loopDone(iter, iterations) == iter >= iterations

\* Mutant: a zero likelihood does not end the loop.
likelihoodCollapsedIgnored(logLikelihood) == FALSE

\* if (logLikelihood === -Infinity) break
likelihoodCollapsed(logLikelihood) == logLikelihood = NegInfinity

\* Mutant: no guard on the tolerance, and a difference equal to it counts.
convergedUnguarded(tolerance, iter, logLikelihood, oldLogLikelihood) ==
    /\ iter > 0
    /\ Abs(logLikelihood - oldLogLikelihood) <= tolerance

\* if (tolerance > 0 && iter > 0) if (Math.abs(...) < tolerance) break
converged(tolerance, iter, logLikelihood, oldLogLikelihood) ==
    /\ tolerance > 0
    /\ iter > 0
    /\ Abs(logLikelihood - oldLogLikelihood) < tolerance

\* What a call of train did, noted as it goes: the passes and M-steps it
\* ran, the log-likelihood of every forward pass, the model after every
\* M-step, the buffers of the last E-step, whether a forward pass read a
\* stale At, the forward pass (counted from 1) that met a row sum <= 0, and
\* how the loop ended.
NewTrace(hmm) ==
    [ hmm |-> hmm, forwardPasses |-> 0, backwardPasses |-> 0, mSteps |-> 0,
      logLikelihoods |-> <<>>, models |-> <<>>, alpha |-> <<>>, beta |-> <<>>,
      xi |-> <<>>, gamma |-> <<>>, staleRead |-> FALSE, zeroRowAt |-> 0,
      stop |-> "short" ]

RECURSIVE trainLoop(_, _, _, _, _, _, _, _, _)
\* The iterations of train from iteration iter on: forward pass, stop on a
\* zero likelihood, stop on convergence, backward pass, E-step, M-step.
trainLoop(hmm, obs, iter, iterations, tolerance, oldLogLikelihood, alpha, beta, trace) ==
    IF loopDone(iter, iterations) THEN [trace EXCEPT !.hmm = hmm, !.stop = "cap"]
    ELSE Only({ Only({
           IF likelihoodCollapsed(fwd.logLikelihood)
           THEN [seen EXCEPT !.hmm = hmm, !.stop = "collapse"]
           ELSE IF converged(tolerance, iter, fwd.logLikelihood, oldLogLikelihood)
           THEN [seen EXCEPT !.hmm = hmm, !.stop = "converged"]
           ELSE Only({ Only({ Only({ Only({
                    trainLoop(next, obs, iter + 1, iterations, tolerance,
                              fwd.logLikelihood, fwd.alpha, bwd,
                              [seen EXCEPT !.backwardPasses = @ + 1,
                                           !.mSteps = @ + 1,
                                           !.models = Append(@, next),
                                           !.alpha = fwd.alpha, !.beta = bwd,
                                           !.xi = xi, !.gamma = gamma]) :
                    next \in {MStep(hmm, obs, xi, gamma)} }) :
                    gamma \in {Gamma(obs, fwd.alpha, xi)} }) :
                    xi \in {Xi(hmm, obs, fwd.alpha, bwd)} }) :
                    bwd \in {computeBackward(hmm, obs, beta)} }) :
           seen \in {[trace EXCEPT
                        !.forwardPasses = @ + 1,
                        !.logLikelihoods = Append(@, fwd.logLikelihood),
                        !.staleRead = @ \/ fwd.staleRead,
                        !.zeroRowAt = IF @ = 0 /\ fwd.zeroRow > 0 THEN iter + 1 ELSE @]} }) :
           fwd \in {computeForward(hmm, obs, alpha)} })

\* Mutant: the guard lets a sequence of length 1 through.
trainGuardOffByOne(hmm, obs, iterations, tolerance) ==
    IF Len(obs) < 1 THEN NewTrace(hmm)
    ELSE Only({ trainLoop(synced, obs, 0, iterations, tolerance, NegInfinity,
                          ZeroRows(Len(obs), hmm.numStates),
                          ZeroRows(Len(obs), hmm.numStates), NewTrace(synced)) :
                synced \in {updateTransposedA(hmm)} })

\* The body of train when BufferPool.get hands it alpha and beta with the
\* given contents: nothing for T < 2; else updateTransposedA and the
\* iterations.
trainWith(hmm, obs, iterations, tolerance, alpha, beta) ==
    IF Len(obs) < 2 THEN NewTrace(hmm)
    ELSE Only({ trainLoop(synced, obs, 0, iterations, tolerance, NegInfinity,
                          alpha, beta, NewTrace(synced)) :
                synced \in {updateTransposedA(hmm)} })

\* train(observations, iterations, tolerance): the buffers come from the pool,
\* zero-filled. The value is the trace of the call; its field hmm is the model
\* the call leaves.
train(hmm, obs, iterations, tolerance) ==
    trainWith(hmm, obs, iterations, tolerance,
              ZeroRows(Len(obs), hmm.numStates), ZeroRows(Len(obs), hmm.numStates))

\* ---- predictSteps of the engine
\* pi_t+1 = pi_t * A, read from the cached transpose.
Project(hmm, dist) ==
    [sj \in StatesOf(hmm) |->
        SumTo([si \in StatesOf(hmm) |-> Mul(dist[si], hmm.At[sj][si])], hmm.numStates)]

\* probs[k] = sum over states of Prob(state) * B[state * M + k]
Mix(hmm, dist) ==
    [k \in SymbolsOf(hmm) |->
        SumTo([si \in StatesOf(hmm) |-> Mul(dist[si], hmm.B[si][k])], hmm.numStates)]

\* Mutant: every step is projected from the starting distribution.
predictLoopFromStart(hmm, dist, s, maxSteps, allResults) ==
    [k \in 1..maxSteps |-> Mix(hmm, Project(hmm, dist))]

RECURSIVE predictLoop(_, _, _, _, _)
\* for (s = 1; s <= maxSteps; s++): project, copy into stateDistribution, mix.
predictLoop(hmm, dist, s, maxSteps, allResults) ==
    IF s > maxSteps THEN allResults
    ELSE Only({ predictLoop(hmm, nextStateDist, s + 1, maxSteps,
                            Append(allResults, Mix(hmm, nextStateDist))) :
                nextStateDist \in {Project(hmm, dist)} })

\* Mutant: a zero sum is divided by like any other.
normalizedLastUnguarded(last) == ScaleRow(last, Recip(RowSum(last)))

\* The last row of alpha times 1 / its sum, or 1 / N each if the sum is 0.
normalizedLast(last) ==
    IF RowSum(last) = 0
    THEN [si \in 1..Len(last) |-> Scale \div Len(last)]
    ELSE ScaleRow(last, Recip(RowSum(last)))

\* The body of predictSteps when BufferPool.get hands it alpha with the given
\* contents: the model it leaves (At refreshed for a non-empty sequence), the
\* last row of alpha as read, the starting state distribution, the vectors
\* returned, and whether At was read stale.
predictStepsWith(hmm, obs, maxSteps, alpha) ==
    IF Len(obs) = 0
    THEN [ hmm |-> hmm, last |-> <<>>, start |-> hmm.pi, zeroRow |-> 0,
           results |-> predictLoop(hmm, hmm.pi, 1, maxSteps, <<>>),
           staleRead |-> maxSteps >= 1 /\ hmm.At # Transposed(hmm.A, hmm.numStates) ]
    ELSE Only({ Only({ Only({
           [ hmm |-> synced, last |-> fwd.alpha[Len(obs)], start |-> start,
             zeroRow |-> fwd.zeroRow,
             results |-> predictLoop(synced, start, 1, maxSteps, <<>>),
             staleRead |-> \/ fwd.staleRead
                           \/ /\ maxSteps >= 1
                              /\ synced.At # Transposed(synced.A, synced.numStates) ] :
           start \in {normalizedLast(fwd.alpha[Len(obs)])} }) :
           fwd \in {computeForward(synced, obs, alpha)} }) :
           synced \in {updateTransposedA(hmm)} })

\* predictSteps(observations, maxSteps) of the HMM class: alpha comes from the
\* pool, zero-filled.
HMMpredictSteps(hmm, obs, maxSteps) ==
    predictStepsWith(hmm, obs, maxSteps, ZeroRows(Len(obs), hmm.numStates))

\* ---- an engine driven by a test: construct, train, train again, predict
RngSeeds == 1..Len(RandomDraws)

RECURSIVE SeqsUpTo(_, _)
SeqsUpTo(S, n) == IF n = 0 THEN { <<>> } ELSE SeqsUpTo(S, n - 1) \cup SeqsOf(S, n)

\* The observation sequences a test passes to a model of M symbols, and the
\* iteration caps and tolerances.
ObsSeqsOf(M) == SeqsUpTo({Sentinel} \cup { k - 1 : k \in 1..M }, MaxT)
ObsSeqs == ObsSeqsOf(NumObservations)
Tolerances == {0, 1500}

\* A sequence that repeats one value.
Constant(obs) == \A t \in 1..Len(obs) : obs[t] = obs[1]

NoEngine == [hmm |-> <<>>, before |-> <<>>, call |-> <<>>, out |-> <<>>]

\* const hmm = new HMM(N, M)
EngineConstruct ==
    /\ pc = "engine"
    /\ engine = NoEngine
    /\ \E seed \in RngSeeds, N \in States, M \in Symbols :
          engine' = [ hmm    |-> HMM(seed, N, M),
                      before |-> <<>>,
                      call   |-> [op |-> "new", seed |-> seed],
                      out    |-> <<>> ]
    /\ UNCHANGED << ctlVars, bufWritten, pc, pool, outbox, terminated, payloads, future,
                    failed, abandoned, executed, outOfOrder, heap >>
    /\ UNCHANGED randomPool

\* The step of a call of train with the given arguments.
TrainCall(obs, iterations, tolerance) ==
    \E trace \in {train(engine.hmm, obs, iterations, tolerance)} :
        engine' = [ hmm    |-> trace.hmm,
                    before |-> engine.hmm,
                    call   |-> [op |-> "train", obs |-> obs, iterations |-> iterations,
                                tolerance |-> tolerance, calls |-> IF engine.call.op = "new" THEN 1 ELSE 2],
                    out    |-> trace ]

\* hmm.train(obs, iterations, tolerance) on the model just constructed
EngineTrain ==
    /\ pc = "engine"
    /\ engine.call # <<>>
    /\ engine.call.op = "new"
    /\ \E obs \in ObsSeqsOf(engine.hmm.numObservations),
          iterations \in 0..MaxIterations, tolerance \in Tolerances :
          TrainCall(obs, iterations, tolerance)
    /\ UNCHANGED << ctlVars, bufWritten, pc, pool, outbox, terminated, payloads, future,
                    failed, abandoned, executed, outOfOrder, heap >>
    /\ UNCHANGED randomPool

\* The engine was trained once, for one round, on two positions that hold
\* the same value.
FirstRoundOnPair ==
    /\ engine.call.op = "train"
    /\ engine.call.calls = 1
    /\ engine.call.iterations = 1
    /\ engine.call.tolerance = 0
    /\ Len(engine.call.obs) = 2
    /\ Constant(engine.call.obs)

\* A second call of train, on another sequence and with the full cap. It is
\* explored after a first call of one round on two positions that hold the
\* same value: the calls that leave a whole column of B, or all of B, at zero.
EngineRetrain ==
    /\ pc = "engine"
    /\ engine.call # <<>>
    /\ FirstRoundOnPair
    /\ \E obs \in ObsSeqsOf(engine.hmm.numObservations), tolerance \in Tolerances :
          TrainCall(obs, MaxIterations, tolerance)
    /\ UNCHANGED << ctlVars, bufWritten, pc, pool, outbox, terminated, payloads, future,
                    failed, abandoned, executed, outOfOrder, heap >>
    /\ UNCHANGED randomPool

\* hmm.predictSteps(obs, maxSteps): on any sequence for a model just
\* constructed or trained for one round on two positions that hold the same
\* value, on the training sequence (as the worker does) or the empty
\* sequence for any other model trained once.
EnginePredict ==
    /\ pc = "engine"
    /\ engine.call # <<>>
    /\ \/ engine.call.op = "new"
       \/ engine.call.op = "train" /\ engine.call.calls = 1
    /\ \E obs \in IF engine.call.op = "new" \/ FirstRoundOnPair
                  THEN ObsSeqsOf(engine.hmm.numObservations)
                  ELSE { <<>>, engine.call.obs },
          maxSteps \in {0, 1, ChunkSize} :
          \E out \in {HMMpredictSteps(engine.hmm, obs, maxSteps)} :
              engine' = [ hmm    |-> out.hmm,
                          before |-> engine.hmm,
                          call   |-> [op |-> "predictSteps", obs |-> obs,
                                      maxSteps |-> maxSteps],
                          out    |-> out ]
    /\ UNCHANGED << ctlVars, bufWritten, pc, pool, outbox, terminated, payloads, future,
                    failed, abandoned, executed, outOfOrder, heap >>
    /\ UNCHANGED randomPool

\* ------------------------------------------------------------ specifications
RECURSIVE Zeros(_)
Zeros(n) == IF n = 0 THEN <<>> ELSE Append(Zeros(n - 1), 0)

\* No RandomPool is looked at: the random values of the constructor are the seeds.
NoRandomPool == <<>>

InitCommon ==
    /\ bufWritten = {}
    /\ i = 0
    /\ j = 0
    /\ ensemblePromises = <<>>
    /\ allEnsemblePredictions = <<>>
    /\ aggregatedProbs = ZeroVec
    /\ decisions = <<>>
    /\ pool = NewPool
    /\ outbox = [w \in Workers |-> <<>>]
    /\ terminated = FALSE
    /\ payloads = <<>>
    /\ future = <<>>
    /\ failed = {}
    /\ abandoned = [inFlight |-> {}, queued |-> {}]
    /\ executed = {}
    /\ outOfOrder = FALSE
    /\ heap = [w \in Workers |-> NewHeap]
    /\ engine = NoEngine

\* The number of records of s that are not an ordinary resolved record.
OddRecords(s) == Cardinality({ k \in 1..Len(s) : s[k] # Won })

\* The runs explored: a single model over every combination of records and
\* over an empty or a mixed initial history, and a full ensemble over the
\* mixed initial history and target records that are all resolved.
\* runBacktest up to the loop: history = [...previousMonthsRaces], the
\* filtered and mapped sequence, the buffer of sequence.length + targets.
Init ==
    /\ \/ /\ ensembleSize = 1
          /\ previousMonthsRaces \in InitHistories
          /\ targets \in SeqsOf(RecordKinds, NumTargets)
       \/ /\ ensembleSize = MaxEnsembleSize
          /\ previousMonthsRaces \in { h \in InitHistories : h # <<>> }
          /\ targets \in { s \in SeqsOf(RecordKinds, NumTargets) : OddRecords(s) = 0 }
    /\ history = previousMonthsRaces
    /\ sequence = FilterMapCodes(history)
    /\ sharedBuf = sequence \o Zeros(Len(targets))
    /\ currentStats = calculateStats(history)
    /\ pc = "loop"
    /\ InitCommon
    /\ randomPool = NoRandomPool

Next ==
    \/ ChunkStart
    \/ AwaitResume
    \/ Decide
    \/ Reveal
    \/ Finish
    \/ \E w \in Workers : WorkerRun(w)
    \/ \E w \in Workers : WorkerFail(w)
    \/ \E w \in Workers : HandleMessage(w)

Spec == Init /\ [][Next]_vars

PoolInit ==
    /\ ensembleSize = 0
    /\ previousMonthsRaces = <<>>
    /\ targets = <<>>
    /\ history = <<>>
    /\ sequence = <<>>
    /\ sharedBuf = <<>>
    /\ currentStats = EmptyStats
    /\ pc = "client"
    /\ InitCommon
    /\ randomPool = NoRandomPool

PoolNext ==
    \/ ClientRun
    \/ ClientTerminate
    \/ \E w \in Workers : WorkerRun(w)
    \/ \E w \in Workers : WorkerFail(w)
    \/ \E w \in Workers : HandleMessage(w)
    \/ \E w \in Workers : DropMessage(w)

PoolSpec == PoolInit /\ [][PoolNext]_vars

\* An engine on its own: no backtest, no pool.
EngineInit ==
    /\ ensembleSize = 0
    /\ previousMonthsRaces = <<>>
    /\ targets = <<>>
    /\ history = <<>>
    /\ sequence = <<>>
    /\ sharedBuf = <<>>
    /\ currentStats = EmptyStats
    /\ pc = "engine"
    /\ InitCommon
    /\ randomPool = NoRandomPool

EngineNext ==
    \/ EngineConstruct
    \/ EngineTrain
    \/ EngineRetrain
    \/ EnginePredict

EngineSpec == EngineInit /\ [][EngineNext]_vars

\* ------------------------------------------------------------ properties
RECURSIVE RevealedCodes(_)
\* The codes the reveal step derives from target records, in order: one per
\* record whose winningSlot is known.
RevealedCodes(rs) ==
    IF rs = <<>> THEN <<>>
    ELSE (IF Head(rs).winningSlot # Null THEN <<ObservationCode(Head(rs))>> ELSE <<>>)
         \o RevealedCodes(Tail(rs))

\* What is known before the chunk that starts at target index `start`.
KnownBefore(start) ==
    FilterMapCodes(previousMonthsRaces) \o RevealedCodes(SubSeq(targets, 1, start))

IsPending(t) == future[t].state = "pending"

\* C1 (barrier): whenever the controller aggregates and decides for a record
\* of a chunk, all ensembleSize futures submitted for that chunk are resolved
\* and each of them contributed; no decision was ever made from fewer.
C1_Barrier ==
    /\ pc \in {"decide", "reveal"} =>
          /\ Len(ensemblePromises) = ensembleSize
          /\ \A e \in 1..ensembleSize : future[ensemblePromises[e]].state = "resolved"
          /\ Len(allEnsemblePredictions) = ensembleSize
    /\ \A n \in 1..Len(decisions) :
          /\ decisions[n].contributions = ensembleSize
          /\ \A e \in 1..Len(decisions[n].promises) :
                 future[decisions[n].promises[e]].state = "resolved"

\* A decision is being made after the workers finished out of submission order.
C1_Witness ==
    /\ pc = "decide"
    /\ outOfOrder
    /\ Len(decisions) > 0

\* C2 (no lookahead): the sequence every task of the chunk starting at target
\* index i carries, and the sequence a worker read for it, is exactly the
\* codes of the initial history followed by the codes of the target records
\* with index < i; nothing of the current or a later chunk is in it.
C2_NoLookahead ==
    /\ \A t \in TaskIds : View(t) = KnownBefore(payloads[t].chunk)
    /\ \A w \in Workers : \A m \in 1..Len(outbox[w]) :
          outbox[w][m].obs = KnownBefore(payloads[outbox[w][m].forTask].chunk)

\* A worker has read the sequence of the second chunk, which holds a code
\* revealed in the first chunk while the run has already revealed more.
C2_Witness ==
    \E w \in Workers :
        /\ outbox[w] # <<>>
        /\ payloads[Head(outbox[w]).forTask].chunk > 0
        /\ Len(Head(outbox[w]).obs) > Len(FilterMapCodes(previousMonthsRaces))

\* C3 (strict chunk ordering): all tasks queued or in flight belong to one
\* chunk, and once a task of a chunk exists every task of an earlier chunk is
\* resolved and every record before the chunk has been decided and revealed.
C3_StrictChunkOrdering ==
    /\ \A t, u \in InFlightOrQueued : payloads[t].chunk = payloads[u].chunk
    /\ \A t, u \in TaskIds :
          payloads[u].chunk < payloads[t].chunk => future[u].state = "resolved"
    /\ \A t \in TaskIds :
          /\ Len(decisions) >= payloads[t].chunk
          /\ Len(history) >= Len(previousMonthsRaces) + payloads[t].chunk

\* Tasks of the second chunk are queued and in flight together.
C3_Witness ==
    /\ Len(pool.queue) > 0
    /\ payloads[Head(pool.queue)].chunk > 0
    /\ \E w \in Workers : pool.currentTask[w] # Null

Busy(w) == pool.currentTask[w] # Null

\* C4 (run): a step that submits one task dispatches it to a worker within
\* the call when a worker is idle (it is not left in the queue); when no
\* worker is idle it appends the task at the tail of the queue and leaves the
\* busy workers and the idle list as they were.
C4_RunDispatchesOrEnqueues ==
    [][ Len(payloads') = Len(payloads) + 1 =>
          LET t == Len(payloads) + 1
          IN  IF Len(pool.idleWorkers) > 0
              THEN /\ \A k \in 1..Len(pool'.queue) : pool'.queue[k] # t
                   /\ \E w \in Workers : ~Busy(w) /\ pool'.currentTask[w] = t
                   /\ pool'.dispatchLog = Append(pool.dispatchLog, t)
              ELSE /\ pool'.queue = Append(pool.queue, t)
                   /\ pool'.currentTask = pool.currentTask
                   /\ pool'.idleWorkers = pool.idleWorkers
                   /\ pool'.dispatchLog = pool.dispatchLog ]_vars

\* Tasks were dispatched at once until no worker was idle, and the next one
\* waits in the queue.
C4_Witness ==
    /\ Len(pool.queue) > 0
    /\ \A w \in Workers : Busy(w)
    /\ Len(pool.dispatchLog) = MaxWorkers

\* C5 (FIFO dispatch): tasks are dispatched in the order of their submission:
\* the k-th dispatch is the k-th submitted task, and the queue holds the
\* undispatched tasks in submission order.
C5_FifoDispatch ==
    /\ \A k \in 1..Len(pool.dispatchLog) : pool.dispatchLog[k] = k
    /\ \A k \in 1..Len(pool.queue) : pool.queue[k] = Len(pool.dispatchLog) + k

\* A task taken from the queue was dispatched while a later one still waits.
C5_Witness ==
    /\ Len(pool.dispatchLog) > MaxWorkers
    /\ Len(pool.queue) > 0

\* C6 (completion step): a future is resolved only in a step that consumes the
\* result message of the worker the task was dispatched to; that step resolves
\* this one future, once, with the message's results, and either hands the
\* worker the head of the queue or leaves it idle.  While the pool is not
\* terminated, every message of a busy worker that is consumed is such a step.
C6_CompletionStep ==
    [][ /\ \A t \in TaskIds :
              future'[t].resolveCalls # future[t].resolveCalls =>
                  \E w \in Workers :
                      /\ pool.currentTask[w] = t
                      /\ outbox[w] # <<>>
                      /\ outbox'[w] = Tail(outbox[w])
                      /\ Head(outbox[w]).forTask = t
                      /\ future[t].state = "pending"
                      /\ future'[t] = [state |-> "resolved",
                                       value |-> Head(outbox[w]).results,
                                       resolveCalls |-> 1]
                      /\ \A u \in TaskIds \ {t} : future'[u] = future[u]
                      /\ IF pool.queue # <<>>
                         THEN /\ pool'.currentTask[w] = Head(pool.queue)
                              /\ pool'.queue = Tail(pool.queue)
                              /\ pool'.dispatchLog = Append(pool.dispatchLog, Head(pool.queue))
                              /\ pool'.idleWorkers = pool.idleWorkers
                         ELSE /\ pool'.currentTask[w] = Null
                              /\ pool'.idleWorkers = Append(pool.idleWorkers, w)
                              /\ pool'.dispatchLog = pool.dispatchLog
        /\ \A w \in Workers :
              (~terminated /\ Busy(w) /\ Len(outbox'[w]) < Len(outbox[w])) =>
                  future'[pool.currentTask[w]].state = "resolved" ]_vars

\* A completion resolved one task and handed its worker a task from the queue.
C6_Witness ==
    \E w \in Workers :
        /\ pool.currentTask[w] > MaxWorkers
        /\ \E t \in TaskIds : future[t].state = "resolved" /\ future[t].resolveCalls = 1

\* C7 (worker failure), as claimed: the future of a task whose worker failed
\* is a rejected future.
C7_FailureRejectsFuture ==
    \A t \in failed : future[t].state = "rejected"

\* Nothing is left that could change the pool: no posted task waits for a
\* live worker and no message waits for the main thread.
Quiescent ==
    \A w \in Workers : pool.inbox[w] = <<>> /\ outbox[w] = <<>>

\* C8 (chunk abort on failure), as claimed: when a task of the current chunk
\* has failed the controller does not stay blocked at the barrier for ever,
\* and the decision function never gets a vector that lacks a member.
C8_ChunkAbortOnFailure ==
    /\ (Quiescent /\ \E e \in 1..Len(ensemblePromises) : ensemblePromises[e] \in failed)
           => pc # "await"
    /\ \A n \in 1..Len(decisions) : decisions[n].contributions = ensembleSize

\* C9 (shutdown), as claimed: no future of a task queued or in flight at
\* terminate() is resolved afterwards, and no task queued then is executed.
C9_AbandonedAfterTerminate ==
    /\ \A t \in abandoned.inFlight \cup abandoned.queued : future[t].state = "pending"
    /\ \A t \in abandoned.queued : t \notin executed

\* C10 (read-only shared sequence): in a step that starts while a submitted
\* task is unresolved, nobody writes a cell of the region handed to that task
\* and the region keeps its contents.
C10_ReadOnlySharedSequence ==
    [][ \A t \in TaskIds :
            IsPending(t) =>
                /\ bufWritten' \cap (1..payloads[t].len) = {}
                /\ SubSeq(sharedBuf', 1, payloads[t].len) = View(t) ]_vars

\* A worker has run on a non-empty region while another task of the same
\* chunk, the second one, is still unresolved.
C10_Witness ==
    \E t \in TaskIds :
        /\ IsPending(t)
        /\ payloads[t].chunk > 0
        /\ payloads[t].len > 0
        /\ \E u \in executed :
               /\ u # t
               /\ payloads[u].chunk = payloads[t].chunk
               /\ future[u].state = "resolved"

\* ------------------------------------------------------------ C11..C17
ChunkStarts == { c \in 0..(Len(targets) - 1) : c % ChunkSize = 0 }

TasksOf(c) == { t \in TaskIds : payloads[t].chunk = c }

\* The chunk starting at c has been submitted.
Started(c) == c < i \/ (c = i /\ pc \in {"await", "decide", "reveal"})

\* The chunk starting at c has been walked through to its last reveal.
Completed(c) == c \in ChunkStarts /\ c < i

CeilDiv(a, b) == (a + b - 1) \div b

\* C11 (task count): every chunk that has been submitted has exactly
\* ensembleSize tasks and a chunk not yet submitted has none; every task asks
\* for as many steps as its chunk has records; a run that ends has made
\* ensembleSize * ceil(R / chunkSize) calls of pool.run in total.
C11_TaskCount ==
    /\ \A c \in ChunkStarts :
          Cardinality(TasksOf(c)) = IF Started(c) THEN ensembleSize ELSE 0
    /\ \A t \in TaskIds :
          /\ payloads[t].chunk \in ChunkStarts
          /\ payloads[t].steps = Len(Chunk(payloads[t].chunk))
    /\ pc = "done" => Len(payloads) = ensembleSize * CeilDiv(Len(targets), ChunkSize)

\* A run with a full ensemble has ended, and its last chunk was a short one.
C11_Witness ==
    /\ pc = "done"
    /\ ensembleSize = MaxEnsembleSize
    /\ Len(payloads) > ensembleSize
    /\ payloads[Len(payloads)].steps < ChunkSize

\* The length of the sequence when the chunk starting at c was submitted, and
\* after its last reveal (the sequence does not change between the last
\* reveal of a chunk and the submission of the next).
SeqLenBefore(c) == payloads[CHOOSE t \in TasksOf(c) : TRUE].len

SeqLenAfter(c) ==
    IF TasksOf(c + ChunkSize) # {} THEN SeqLenBefore(c + ChunkSize) ELSE Len(sequence)

ResolvedCount(rs) == Cardinality({ k \in 1..Len(rs) : rs[k].winningSlot # Null })

\* C12 (sequence growth), amended: after the reveal steps of a chunk the
\* sequence is longer than before the chunk by exactly the number of records
\* of the chunk whose winningSlot is known.
C12_SequenceGrowthResolved ==
    \A c \in ChunkStarts :
        Completed(c) => SeqLenAfter(c) = SeqLenBefore(c) + ResolvedCount(Chunk(c))

\* A full chunk holding a pending and a resolved record has been revealed.
C12_Witness ==
    \E c \in ChunkStarts :
        /\ Completed(c)
        /\ Len(Chunk(c)) = ChunkSize
        /\ ResolvedCount(Chunk(c)) > 0
        /\ ResolvedCount(Chunk(c)) < ChunkSize

\* C12 as claimed: the sequence grows by exactly the number of records of the
\* chunk.
C12_SequenceGrowthChunkLength ==
    \A c \in ChunkStarts :
        Completed(c) => SeqLenAfter(c) = SeqLenBefore(c) + Len(Chunk(c))

\* C13 (sequence/history consistency), as claimed: the sequence equals the
\* codes re-derived from the current history with the rule that built the
\* initial sequence.
C13_SequenceMatchesHistory ==
    sequence = FilterMapCodes(history)

\* The target records revealed so far: every decision but one still waiting
\* for its reveal.
Processed == Len(decisions) - (IF pc = "reveal" THEN 1 ELSE 0)

IsPrefix(a, b) == Len(a) <= Len(b) /\ SubSeq(b, 1, Len(a)) = a

\* C15 (append-only): every step leaves history and the sequence as they
\* are or appends one element at the end of each; nothing already present is
\* changed or removed.
C15_AppendOnly ==
    [][ /\ IsPrefix(history, history') /\ Len(history') <= Len(history) + 1
        /\ IsPrefix(sequence, sequence') /\ Len(sequence') <= Len(sequence) + 1 ]_vars

\* Both have grown beyond a non-empty initial state.
C15_Witness ==
    /\ previousMonthsRaces # <<>>
    /\ Len(history) > Len(previousMonthsRaces) + 1
    /\ Len(sequence) > Len(FilterMapCodes(previousMonthsRaces)) + 1

\* The records known before target record r (0-based): the initial history and
\* the target records before r.
Preceding(r) == previousMonthsRaces \o SubSeq(targets, 1, r)

\* What the statistics engine counts: a record with a winning slot and a
\* winning payout.
Counted(rec) == rec.winningSlot # Null /\ rec.winningPayout # NullPayout

CountedIn(rs) == Cardinality({ k \in 1..Len(rs) : Counted(rs[k]) })

WinsIn(rs, slot) ==
    Cardinality({ k \in 1..Len(rs) : Counted(rs[k]) /\ rs[k].winningSlot = slot })

RECURSIVE SumResults(_, _, _)
\* Sum over the first n futures of the chunk of result[pos][k].
SumResults(n, pos, k) ==
    IF n = 0 THEN 0
    ELSE SumResults(n - 1, pos, k) + future[ensemblePromises[n]].value[pos][k]

\* C17 (aggregation): the vector handed to the decision function for position
\* j of the chunk has, as numerator over ensembleSize, component k equal to the
\* sum over the ensembleSize results of result[j][k] and nothing else; for
\* ensembleSize = 1 it is the single model's vector.
C17_Aggregation ==
    pc = "reveal" =>
        /\ \A k \in DOMAIN aggregatedProbs :
               aggregatedProbs[k] = SumResults(ensembleSize, j + 1, k)
        /\ ensembleSize = 1 =>
               aggregatedProbs = future[ensemblePromises[1]].value[j + 1]

\* The second position of a chunk has been aggregated from a full ensemble
\* whose members disagree.
C17_Witness ==
    /\ pc = "reveal"
    /\ j > 0
    /\ ensembleSize = MaxEnsembleSize
    /\ \E e, f \in 1..ensembleSize :
           future[ensemblePromises[e]].value[j + 1] # future[ensemblePromises[f]].value[j + 1]

\* ------------------------------------------------------------ C18..C19
\* C18 (private model per task): the results of every task come from the HMM
\* instance constructed in that task's own handler, no instance stays
\* reachable once its handler has returned, and a worker has at most one task
\* at a time: the task posted to it is its currentTask, a result it posted is
\* for its currentTask, and no task is the currentTask of two workers.
C18_PrivateModel ==
    /\ \A w \in Workers :
          /\ \A m \in 1..Len(outbox[w]) : outbox[w][m].hmm = outbox[w][m].forTask
          /\ heap[w].hmm = Null
          /\ heap[w].cached = Null
          /\ Len(pool.inbox[w]) + Len(outbox[w]) <= 1
          /\ pool.inbox[w] # <<>> => pool.currentTask[w] = Head(pool.inbox[w])
          /\ outbox[w] # <<>> => pool.currentTask[w] = Head(outbox[w]).forTask
    /\ \A w, v \in Workers :
          (w # v /\ pool.currentTask[w] # Null) => pool.currentTask[w] # pool.currentTask[v]

\* A worker has answered its second task while another worker is busy.
C18_Witness ==
    \E w, v \in Workers :
        /\ w # v
        /\ outbox[w] # <<>>
        /\ heap[w].reused
        /\ pool.inbox[v] # <<>>

NoDuplicates(bufs) ==
    \A k, m \in 1..Len(bufs) : bufs[k].id = bufs[m].id => k = m

\* C19 (scratch memory), amended: every buffer a task's train or predictSteps
\* call acquires is released before the handler returns, no call is handed a
\* buffer it already holds, no buffer is in the pool twice, and every buffer a
\* worker thread has created is in that thread's own pool: a buffer is
\* acquired again only after its release, by a later call on the same thread.
C19_ScratchHeldByOneCall ==
    \A w \in Workers :
        /\ heap[w].held = <<>>
        /\ ~heap[w].aliased
        /\ NoDuplicates(heap[w].free)
        /\ Len(heap[w].free) = heap[w].allocated

\* A task trained (T >= 2) with buffers an earlier task on the same worker
\* had acquired and released.
C19_Witness ==
    \E w \in Workers :
        /\ heap[w].reused
        /\ heap[w].allocated >= 6
        /\ \E k \in 1..Len(heap[w].free) : heap[w].free[k].size > NumStates

\* C19 as claimed: no handler ever acquires a buffer that the handler of a
\* different task had acquired.
C19_ScratchNeverReused ==
    \A w \in Workers : ~heap[w].reused

\* ------------------------------------------------------------ C20
\* C20 (degenerate input): a call of train with a sequence of length 0 or 1
\* leaves A, B, pi and the cached transpose as they were before the call,
\* whatever the iteration cap and the tolerance.
C20_TrainDegenerateNoOp ==
    (engine.call # <<>> /\ engine.call.op = "train" /\ Len(engine.call.obs) < 2)
        => engine.hmm = engine.before

\* train was called with a sequence of one symbol, iterations to run and no
\* tolerance.
C20_Witness ==
    /\ engine.call # <<>>
    /\ engine.call.op = "train"
    /\ Len(engine.call.obs) = 1
    /\ engine.call.obs[1] # Sentinel
    /\ engine.call.iterations = MaxIterations
    /\ engine.call.tolerance = 0

\* ------------------------------------------------------------ C21..C23
\* The round-off a row of n entries may carry: each entry is a product with a
\* rounded reciprocal of a sum of up to n or MaxT terms (in units of 1 / Scale).
RoundOff(n) == n * (n + MaxT + 1)

\* A probability distribution: no negative entry, and a sum of 1 up to
\* round-off.
IsDistribution(row) ==
    /\ \A k \in 1..Len(row) : row[k] # Undefined /\ row[k] >= 0
    /\ Abs(RowSum(row) - Scale) <= RoundOff(Len(row))

ValidModel(hmm) ==
    /\ IsDistribution(hmm.pi)
    /\ \A si \in StatesOf(hmm) : IsDistribution(hmm.A[si]) /\ IsDistribution(hmm.B[si])

Called(op) == engine.call # <<>> /\ engine.call.op = op

\* C21 (distributions under training): after every completed M-step of a call
\* of train, pi, every row of A and every row of B have no negative entry and
\* sum to 1.
C21_DistributionsAfterMStep ==
    Called("train") =>
        \A m \in 1..Len(engine.out.models) : ValidModel(engine.out.models[m])

\* C22 (initialization): after new HMM(N, M), pi, every row of A and every
\* row of B have only positive entries and sum to 1, and the cached transpose
\* is the transpose of A.
C22_InitializedDistributions ==
    Called("new") =>
        /\ ValidModel(engine.hmm)
        /\ \A si \in StatesOf(engine.hmm) :
              /\ engine.hmm.pi[si] > 0
              /\ \A sj \in StatesOf(engine.hmm) : engine.hmm.A[si][sj] > 0
              /\ \A k \in SymbolsOf(engine.hmm) : engine.hmm.B[si][k] > 0
        /\ engine.hmm.At = Transposed(engine.hmm.A, engine.hmm.numStates)

\* A model of the largest size was constructed, the generator returned 0 for
\* its first draw, and A is not symmetric.
C22_Witness ==
    /\ Called("new")
    /\ engine.hmm.numStates = NumStates
    /\ engine.hmm.numObservations = NumObservations
    /\ rngNext(engine.call.seed, 0) = 0
    /\ engine.hmm.A # engine.hmm.At

\* C23 (transpose consistency): whenever the constructor, train or
\* predictSteps returns, At[sj][si] = A[si][sj] for all states, and no forward
\* pass and no prediction loop of the call read At while it differed from the
\* transpose of A.
C23_TransposeConsistent ==
    engine.call # <<>> =>
        /\ engine.hmm.At = Transposed(engine.hmm.A, engine.hmm.numStates)
        /\ engine.call.op \in {"train", "predictSteps"} => ~engine.out.staleRead

\* train left through the convergence exit after an M-step that changed A
\* to a matrix that is not symmetric.
C23_Witness ==
    /\ Called("train")
    /\ engine.out.stop = "converged"
    /\ engine.out.mSteps >= 1
    /\ engine.hmm.A # engine.before.A
    /\ engine.hmm.A # engine.hmm.At

\* ------------------------------------------------------------ C24
\* The model the last completed EM round of the call started from.
LastRoundModel ==
    IF engine.out.mSteps = 1 THEN engine.before
    ELSE engine.out.models[engine.out.mSteps - 1]

\* hmm with one more symbol, emitted with probability 1 by every state.
WithUnitSymbol(hmm) ==
    [hmm EXCEPT !.numObservations = @ + 1,
                !.B = [sj \in StatesOf(hmm) |-> Append(hmm.B[sj], Scale)]]

\* obs with that symbol in place of the sentinel.
Unmasked(obs, M) == [t \in 1..Len(obs) |-> IF obs[t] = Sentinel THEN M ELSE obs[t]]

RECURSIVE KeptPositions(_, _)
\* The positions 1..n of obs that hold a symbol, in order.
KeptPositions(obs, n) ==
    IF n = 0 THEN <<>>
    ELSE IF obs[n] = Sentinel THEN KeptPositions(obs, n - 1)
    ELSE Append(KeptPositions(obs, n - 1), n)

\* Row sj of B as the emission accumulation gives it over the positions in
\* `kept` alone, every one of them counted.
EmissionRowOver(kept, obs, gamma, sj, M) ==
    LET denom == SumTo([n \in 1..Len(kept) |-> gamma[kept[n]][sj]], Len(kept))
    IN  [k \in 1..M |->
            Mul(SumTo([n \in 1..Len(kept) |->
                         IF obs[kept[n]] = k - 1 THEN gamma[kept[n]][sj] ELSE 0], Len(kept)),
                Recip(IF denom = 0 THEN Epsilon ELSE denom))]

\* Row si of A from the xi and gamma of every position before the last.
TransitionRowOverAll(xi, gamma, si, N, T) ==
    LET denom == SumTo([t \in 1..(T - 1) |-> gamma[t][si]], T - 1)
    IN  [sj \in 1..N |->
            Mul(SumTo([t \in 1..(T - 1) |-> xi[t][si][sj]], T - 1),
                Recip(IF denom = 0 THEN Epsilon ELSE denom))]

\* C24 (masking): in the last completed EM round of a call of train, the
\* forward pass, the backward pass and xi are those of a sequence in which
\* every sentinel is a symbol of emission probability 1; every row of B is
\* the row accumulated over the positions that hold a symbol, the sentinel
\* positions left out of numerator and denominator; pi is the gamma of the
\* first position and every row of A is accumulated over all positions,
\* sentinel or not.
C24_Masking ==
    (Called("train") /\ engine.out.mSteps >= 1) =>
        LET obs == engine.call.obs
            T == Len(obs)
            was == LastRoundModel
            now == engine.out.models[engine.out.mSteps]
            plain == Unmasked(obs, was.numObservations)
        IN  /\ \A unit \in {WithUnitSymbol(was)} :
                  /\ \A fwd \in {computeForward(unit, plain, ZeroRows(T, was.numStates))} :
                        /\ fwd.alpha = engine.out.alpha
                        /\ fwd.logLikelihood = engine.out.logLikelihoods[engine.out.mSteps]
                  /\ computeBackward(unit, plain, ZeroRows(T, was.numStates)) = engine.out.beta
                  /\ Xi(unit, plain, engine.out.alpha, engine.out.beta) = engine.out.xi
            /\ \A sj \in StatesOf(was) :
                  now.B[sj] = EmissionRowOver(KeptPositions(obs, T), obs, engine.out.gamma,
                                              sj, was.numObservations)
            /\ now.pi = engine.out.gamma[1]
            /\ \A si \in StatesOf(was) :
                  now.A[si] = TransitionRowOverAll(engine.out.xi, engine.out.gamma, si,
                                                   was.numStates, T)

\* One round of train on a sequence that holds the sentinel first and a
\* symbol after it, in a model of the largest size: the symbol's column of B
\* is not zero and pi is the gamma of the sentinel position, which is not 0.
C24_Witness ==
    /\ Called("train")
    /\ engine.out.mSteps = 1
    /\ engine.hmm.numStates = NumStates
    /\ engine.hmm.numObservations = NumObservations
    /\ engine.call.obs[1] = Sentinel
    /\ engine.call.obs[Len(engine.call.obs)] # Sentinel
    /\ \E sj \in StatesOf(engine.hmm) : RowSum(engine.hmm.B[sj]) > 0
    /\ \E si \in StatesOf(engine.hmm) : engine.hmm.pi[si] > 0

\* ------------------------------------------------------------ C25
\* C25 (prediction output): predictSteps(seq, S) returns exactly S vectors,
\* each of length M and each summing to 1, for a model just constructed or
\* trained.
C25_PredictionsAreDistributions ==
    Called("predictSteps") =>
        /\ Len(engine.out.results) = engine.call.maxSteps
        /\ \A s \in 1..Len(engine.out.results) :
              /\ Len(engine.out.results[s]) = engine.hmm.numObservations
              /\ Abs(RowSum(engine.out.results[s]) - Scale)
                    <= s * RoundOff(engine.hmm.numStates + engine.hmm.numObservations)

\* ------------------------------------------------------------ C26..C27
\* No entry of the rows is NaN or an infinity.
RowsDefined(rows) ==
    \A t \in 1..Len(rows) : \A k \in 1..Len(rows[t]) : rows[t][k] # Undefined

ModelDefined(hmm) ==
    /\ RowsDefined(<< hmm.pi >>)
    /\ RowsDefined(hmm.A)
    /\ RowsDefined(hmm.B)

\* A forward pass of the call met a row sum that was not positive.
Collapsed == Called("train") /\ engine.out.zeroRowAt > 0

\* C26 (zero-likelihood guard), amended: when a forward pass of train meets a
\* row sum of zero, the call returns, nothing in beta, gamma, A, B or pi is
\* NaN or an infinity, and the loop ends at that forward pass: no epsilon
\* stands in for the row sum and no further iteration runs.
C26_ZeroRowEndsTraining ==
    Collapsed =>
        /\ RowsDefined(engine.out.beta)
        /\ RowsDefined(engine.out.gamma)
        /\ ModelDefined(engine.hmm)
        /\ engine.out.stop = "collapse"
        /\ engine.out.forwardPasses = engine.out.zeroRowAt

\* A model whose B holds a zero for symbol 0 in every state (left by one
\* round on a sequence without that symbol) was trained on a sequence that
\* starts with symbol 0, with iterations and no tolerance.
C26_Witness ==
    /\ Collapsed
    /\ engine.call.obs[1] = 0
    /\ \A sj \in StatesOf(engine.before) : engine.before.B[sj][1] = 0
    /\ engine.call.iterations = MaxIterations
    /\ engine.call.tolerance = 0
    /\ engine.hmm.numStates = NumStates

\* C26 as claimed: after a forward row sum of zero nothing undefined is
\* written and training continues, the loop running on to its cap or to
\* convergence.
C26_ZeroRowTrainingContinues ==
    Collapsed =>
        /\ RowsDefined(engine.out.beta)
        /\ RowsDefined(engine.out.gamma)
        /\ ModelDefined(engine.hmm)
        /\ engine.out.stop \in {"cap", "converged"}

\* C27 (collapse abort): if a forward pass inside train meets a row sum that
\* is not positive, no backward pass and no M-step runs in that iteration or
\* after it, and A, B, pi are those of the last completed M-step, or those
\* from before the call if none completed.
C27_CollapseAborts ==
    Collapsed =>
        /\ engine.out.backwardPasses = engine.out.zeroRowAt - 1
        /\ engine.out.mSteps = engine.out.zeroRowAt - 1
        /\ LET kept == IF engine.out.mSteps = 0 THEN engine.before
                       ELSE engine.out.models[engine.out.mSteps]
           IN  /\ engine.hmm.A = kept.A
               /\ engine.hmm.B = kept.B
               /\ engine.hmm.pi = kept.pi

\* The sequence holds the sentinel first and then a symbol no state emits:
\* the first row of the forward pass is fine, the second sums to 0, and the
\* cap would have allowed iterations.
C27_Witness ==
    /\ Collapsed
    /\ engine.call.obs[1] = Sentinel
    /\ engine.call.obs[2] # Sentinel
    /\ \A sj \in StatesOf(engine.before) : engine.before.B[sj][engine.call.obs[2] + 1] = 0
    /\ engine.call.iterations >= 1
    /\ engine.hmm.numStates = NumStates

\* ------------------------------------------------------------ C28..C29
\* The convergence condition at iteration k (counted from 0) of the call, from
\* the log-likelihoods its forward passes returned.
ConvergedAt(k) ==
    /\ engine.call.tolerance > 0
    /\ k >= 1
    /\ k + 1 <= Len(engine.out.logLikelihoods)
    /\ engine.out.logLikelihoods[k + 1] # NegInfinity
    /\ Abs(engine.out.logLikelihoods[k + 1] - engine.out.logLikelihoods[k])
          < engine.call.tolerance

\* C28 (convergence stop): train leaves through the convergence exit at
\* iteration k, before the backward pass and the M-step of that iteration,
\* exactly when tolerance > 0, k >= 1 and the log-likelihood moved by less
\* than tolerance; never at iteration 0 and never with tolerance = 0, where
\* only the cap or a collapse ends the loop.
C28_ConvergenceStop ==
    Called("train") =>
        LET last == engine.out.forwardPasses - 1
        IN  /\ engine.out.stop = "converged" <=> ConvergedAt(last)
            /\ \A k \in 0..(engine.out.mSteps - 1) : ~ConvergedAt(k)
            /\ engine.out.stop = "converged" =>
                  /\ engine.out.backwardPasses = last
                  /\ engine.out.mSteps = last
                  /\ last >= 1
            /\ engine.call.tolerance = 0 => engine.out.stop \in {"short", "cap", "collapse"}
            /\ engine.out.stop = "cap" => engine.out.mSteps = engine.call.iterations

\* The call stopped at iteration 1 of a larger cap because the log-likelihood
\* had moved, by less than the tolerance.
C28_Witness ==
    /\ Called("train")
    /\ engine.out.stop = "converged"
    /\ engine.out.forwardPasses = 2
    /\ engine.out.mSteps = 1
    /\ engine.call.iterations = MaxIterations
    /\ engine.out.logLikelihoods[2] # engine.out.logLikelihoods[1]

\* C29 (termination of training): a call of train runs at most `iterations`
\* forward passes and at most `iterations` M-steps and returns; a call on two
\* or more observations that neither converges nor collapses runs exactly
\* `iterations` of each.
C29_TrainingTerminates ==
    Called("train") =>
        /\ engine.out.forwardPasses <= engine.call.iterations
        /\ engine.out.mSteps <= engine.call.iterations
        /\ engine.out.mSteps <= engine.out.forwardPasses
        /\ (/\ Len(engine.call.obs) >= 2
            /\ engine.out.zeroRowAt = 0
            /\ \A k \in 0..(engine.out.forwardPasses - 1) : ~ConvergedAt(k))
              => /\ engine.out.forwardPasses = engine.call.iterations
                 /\ engine.out.mSteps = engine.call.iterations

\* With a tolerance set, the log-likelihood moved by the tolerance or more
\* at every iteration and the call ended at the cap.
C29_Witness ==
    /\ Called("train")
    /\ engine.call.tolerance > 0
    /\ engine.call.iterations = MaxIterations
    /\ engine.out.mSteps = MaxIterations
    /\ engine.out.zeroRowAt = 0
    /\ \A k \in 1..(MaxIterations - 1) : ~ConvergedAt(k)

\* ------------------------------------------------------------ C30
\* The product of two N x N matrices, and the k-th power of A.
MatMul(P, Q, N) ==
    [si \in 1..N |-> [sj \in 1..N |->
        SumTo([sk \in 1..N |-> Mul(P[si][sk], Q[sk][sj])], N)]]

RECURSIVE Power(_, _, _)
Power(A, k, N) ==
    IF k = 1 THEN A ELSE Only({ MatMul(P, A, N) : P \in {Power(A, k - 1, N)} })

\* The row vector d times the matrix P.
VecMat(d, P, N) == [sj \in 1..N |-> SumTo([si \in 1..N |-> Mul(d[si], P[si][sj])], N)]

\* The filtered state at the last index of obs, normalized; pi for no obs.
FilteredState(hmm, obs) ==
    IF Len(obs) = 0 THEN hmm.pi
    ELSE normalizedLast(
             computeForward(hmm, obs, ZeroRows(Len(obs), hmm.numStates)).alpha[Len(obs)])

\* C30 (multi-step prediction): when the forward pass of predictSteps meets no
\* zero row, the k-th vector returned, k = 1..maxSteps, is the observation
\* mixture of d * A^k up to round-off, d being the normalized filtered state
\* at the last index of the sequence (pi for the empty sequence), and A, B,
\* pi are as they were before the call.
C30_MultiStepPrediction ==
    (Called("predictSteps") /\ engine.out.zeroRow = 0) =>
        LET was == engine.before
            N == was.numStates
        IN  /\ \A d \in {FilteredState(was, engine.call.obs)} :
                  /\ engine.out.start = d
                  /\ \A k \in 1..engine.call.maxSteps :
                        \A P \in {Power(was.A, k, N)} :
                            \A expected \in {Mix(was, VecMat(d, P, N))} :
                                \A m \in SymbolsOf(was) :
                                    Abs(engine.out.results[k][m] - expected[m])
                                       <= k * RoundOff(N)
            /\ engine.hmm.A = was.A
            /\ engine.hmm.B = was.B
            /\ engine.hmm.pi = was.pi

\* predictSteps ran the most steps on the longest sequence in a model of the
\* largest size, and the first two vectors it returned differ by more than
\* the round-off.
C30_Witness ==
    /\ Called("predictSteps")
    /\ engine.out.zeroRow = 0
    /\ engine.call.maxSteps = ChunkSize
    /\ Len(engine.call.obs) = MaxT
    /\ engine.hmm.numStates = NumStates
    /\ engine.hmm.numObservations = NumObservations
    /\ \E m \in SymbolsOf(engine.hmm) :
          Abs(engine.out.results[1][m] - engine.out.results[2][m])
             > ChunkSize * RoundOff(NumStates)

\* ------------------------------------------------------------ C31..C32
\* C31 (uniform fallback): if the last row of alpha that predictSteps reads
\* sums to zero, whether the forward pass stopped at that row or at an earlier
\* one, the state distribution the projection starts from is 1/N in every
\* state and the call returns maxSteps vectors.
C31_UniformFallback ==
    (Called("predictSteps") /\ engine.out.last # <<>> /\ RowSum(engine.out.last) = 0) =>
        /\ engine.out.start =
              [si \in StatesOf(engine.hmm) |-> Scale \div engine.hmm.numStates]
        /\ Len(engine.out.results) = engine.call.maxSteps
        /\ RowsDefined(engine.out.results)

\* The forward pass of predictSteps stopped at the first of two or more time
\* steps, in a model of the largest number of states, and steps were asked for.
C31_Witness ==
    /\ Called("predictSteps")
    /\ engine.out.zeroRow = 1
    /\ Len(engine.call.obs) >= 2
    /\ engine.call.obs[1] # Sentinel
    /\ \A sj \in StatesOf(engine.before) : engine.before.B[sj][engine.call.obs[1] + 1] = 0
    /\ engine.hmm.numStates = NumStates
    /\ engine.call.maxSteps = ChunkSize


\* A buffer of T rows of N cells that was not zeroed: cell k of every row
\* holds k units.
StaleRows(T, N) == [t \in 1..T |-> [k \in 1..N |-> k]]

\* What the call the engine made last would have given had the pool handed it
\* buffers that were not zeroed.
OnStaleBuffers ==
    IF Called("train")
    THEN trainWith(engine.before, engine.call.obs, engine.call.iterations,
                   engine.call.tolerance,
                   StaleRows(Len(engine.call.obs), engine.before.numStates),
                   StaleRows(Len(engine.call.obs), engine.before.numStates))
    ELSE predictStepsWith(engine.before, engine.call.obs, engine.call.maxSteps,
                          StaleRows(Len(engine.call.obs), engine.before.numStates))

\* The forward pass of predictSteps stopped before the last time step.
StoppedEarly ==
    /\ Called("predictSteps")
    /\ engine.out.zeroRow > 0
    /\ engine.out.zeroRow < Len(engine.call.obs)

\* The original statement of C32: whatever a buffer held when train or
\* predictSteps acquired it, the model the call leaves and the value it
\* returns are the same.
C32_OverwriteBeforeRead ==
    (Called("train") \/ Called("predictSteps")) =>
        \A stale \in {OnStaleBuffers} :
            /\ stale.hmm = engine.hmm
            /\ Called("train") =>
                  /\ stale.stop = engine.out.stop
                  /\ stale.logLikelihoods = engine.out.logLikelihoods
            /\ Called("predictSteps") => stale.results = engine.out.results

\* C32 (overwrite before read), amended: the model train leaves, the rounds it
\* makes and the vectors predictSteps returns do not depend on what the
\* buffers held when they were acquired, except when the forward pass of
\* predictSteps stops before the last time step: the last row of alpha is
\* then read as it was acquired, which from the pool is all zeros.
C32_OverwriteBeforeReadUnlessStopped ==
    (Called("train") \/ Called("predictSteps")) =>
        \A stale \in {OnStaleBuffers} :
            /\ stale.hmm = engine.hmm
            /\ Called("train") =>
                  /\ stale.stop = engine.out.stop
                  /\ stale.logLikelihoods = engine.out.logLikelihoods
            /\ (Called("predictSteps") /\ ~StoppedEarly) =>
                  /\ stale.results = engine.out.results
                  /\ stale.start = engine.out.start
            /\ StoppedEarly =>
                  /\ stale.last = StaleRows(Len(engine.call.obs),
                                            engine.before.numStates)[Len(engine.call.obs)]
                  /\ engine.out.last = [k \in 1..engine.before.numStates |-> 0]

\* predictSteps was asked for steps on a sequence whose first observation no
\* state can emit while the second one can be emitted.
C32_Witness ==
    /\ StoppedEarly
    /\ engine.call.maxSteps >= 1
    /\ engine.out.results # <<>>
    /\ \E sj \in StatesOf(engine.hmm) :
          Emission(engine.hmm, sj, engine.call.obs[Len(engine.call.obs)]) > 0


\* ------------------------------------------------------------ C33..C35
\* The positions of idleWorkers that hold worker w.
IdlePositions(w) == { k \in 1..Len(pool.idleWorkers) : pool.idleWorkers[k] = w }

\* The tasks handed to a worker whose future is still pending.
InFlight ==
    { t \in TaskIds : /\ future[t].state = "pending"
                      /\ \E k \in 1..Len(pool.dispatchLog) : pool.dispatchLog[k] = t }

\* C33 (worker states): every worker is on the idle list once and has no
\* current task, or is not on it and has one; a worker has at most one task
\* posted to it and not answered, and that task is its current task; at most
\* as many tasks are in flight as there are workers; handleMessage for a
\* worker without a current task leaves the pool as it is.
C33_WorkerStates ==
    /\ \A w \in Workers :
          /\ Cardinality(IdlePositions(w)) = (IF Busy(w) THEN 0 ELSE 1)
          /\ Len(pool.inbox[w]) + Len(outbox[w]) <= 1
          /\ pool.inbox[w] # <<>> => pool.currentTask[w] = Head(pool.inbox[w])
          /\ outbox[w] # <<>> => pool.currentTask[w] = Head(outbox[w]).forTask
          /\ ~Busy(w) => handleMessage(pool, w, terminated) = pool
    /\ Len(pool.idleWorkers) + Cardinality({ w \in Workers : Busy(w) }) = MaxWorkers
    /\ Cardinality(InFlight) <= MaxWorkers

\* A worker went back to idle after its task, another one is at work on a
\* task that came from the queue, and a worker has been handed a second task.
C33_Witness ==
    /\ ~terminated
    /\ \E w \in Workers : ~Busy(w)
    /\ \E w \in Workers : Busy(w) /\ pool.inbox[w] # <<>> /\ pool.currentTask[w] > MaxWorkers
    /\ \E t \in TaskIds : future[t].state = "resolved"


\* C34 (work conservation): once a call of run or of handleMessage is over,
\* the queue is empty or no worker is idle.
C34_WorkConservation ==
    ~(Len(pool.queue) > 0 /\ Len(pool.idleWorkers) > 0)

\* Every worker is busy, tasks wait in the queue, and a completion has
\* already taken one task from the queue.
C34_Witness ==
    /\ ~terminated
    /\ Len(pool.queue) > 0
    /\ pool.idleWorkers = <<>>
    /\ Len(pool.dispatchLog) > MaxWorkers
    /\ \E t \in TaskIds : future[t].state = "resolved"


\* The pool when terminate is never called and no task throws: the client
\* submits tasks, the workers run them, the main thread handles the results.
PoolLiveNext ==
    \/ ClientRun
    \/ \E w \in Workers : WorkerRun(w)
    \/ \E w \in Workers : HandleMessage(w)

\* While a task is posted to some worker, a worker thread runs its handler in
\* the end; while a result message waits, the event loop of the main thread
\* handles one in the end.
PoolLiveSpec ==
    /\ PoolInit
    /\ [][PoolLiveNext]_vars
    /\ WF_vars(\E w \in Workers : WorkerRun(w))
    /\ WF_vars(\E w \in Workers : HandleMessage(w))

\* C35 (liveness of the pool): every future that run returned is resolved in
\* the end: whenever some future is pending, a state follows in which every
\* future returned so far, that one among them, is resolved.
C35_EveryFutureResolves ==
    (\E t \in TaskIds : IsPending(t)) ~> (\A t \in TaskIds : future[t].state = "resolved")

\* More tasks than workers were submitted and every one of them is resolved.
C35_Witness ==
    /\ Len(payloads) = MaxClientTasks
    /\ MaxClientTasks > MaxWorkers
    /\ \A t \in TaskIds : future[t].state = "resolved"
    /\ ~terminated
    /\ failed = {}


\* ------------------------------------------------------------ C36
\* One worker thread on its own: each handler call trains on a sequence of
\* some length and leaves train on some path, or throws.
HandlerLengths == 0..MaxT

\* The thread looked at.
Thread == CHOOSE w \in Workers : TRUE

\* self.onmessage runs to its postMessage.
HandlerReturns ==
    /\ pc = "heap"
    /\ Cardinality(executed) < MaxClientTasks
    /\ \E T \in HandlerLengths, exit \in TrainExits \ {"throw"} :
          \E h \in {onmessageHeap(heap[Thread], T, Cardinality(executed) + 1, exit)} :
              heap' = [heap EXCEPT ![Thread] = handlerReturn(h)]
    /\ executed' = executed \cup {Cardinality(executed) + 1}
    /\ UNCHANGED << ctlVars, bufWritten, pc, pool, outbox, terminated, payloads, future,
                    failed, abandoned, outOfOrder, engine >>
    /\ UNCHANGED randomPool

\* self.onmessage throws in the constructor, in train or in predictSteps.
HandlerThrows ==
    /\ pc = "heap"
    /\ Cardinality(executed) < MaxClientTasks
    /\ \E T \in HandlerLengths, at \in {"new", "train", "predictSteps"} :
          \E h \in {onmessageThrows(heap[Thread], T, Cardinality(executed) + 1, at)} :
              heap' = [heap EXCEPT ![Thread] = handlerReturn(h)]
    /\ executed' = executed \cup {Cardinality(executed) + 1}
    /\ failed' = failed \cup {Cardinality(executed) + 1}
    /\ UNCHANGED << ctlVars, bufWritten, pc, pool, outbox, terminated, payloads, future,
                    abandoned, outOfOrder, engine >>
    /\ UNCHANGED randomPool

HeapInit ==
    /\ ensembleSize = 0
    /\ previousMonthsRaces = <<>>
    /\ targets = <<>>
    /\ history = <<>>
    /\ sequence = <<>>
    /\ sharedBuf = <<>>
    /\ currentStats = EmptyStats
    /\ pc = "heap"
    /\ InitCommon
    /\ randomPool = NoRandomPool

HeapNext == HandlerReturns \/ HandlerThrows

HeapSpec == HeapInit /\ [][HeapNext]_vars

C37_QuiescentShutdown ==
    [][ (terminated' /\ ~terminated) =>
            /\ \A e \in 1..Len(ensemblePromises) :
                  future[ensemblePromises[e]].state = "resolved"
            /\ \A t \in TaskIds : future[t].state = "resolved"
            /\ pool.queue = <<>>
            /\ Len(pool.idleWorkers) = MaxWorkers
            /\ \A w \in Workers : ~Busy(w) /\ pool.inbox[w] = <<>> /\ outbox[w] = <<>>
            /\ abandoned' = [inFlight |-> {}, queued |-> {}] ]_vars

\* terminate was called after a run of full ensembles over more than one
\* chunk, in which tasks had to wait in the queue.
C37_Witness ==
    /\ terminated
    /\ pc = "done"
    /\ ensembleSize = MaxEnsembleSize
    /\ ensembleSize > MaxWorkers
    /\ Len(payloads) > ensembleSize
    /\ Len(pool.dispatchLog) = Len(payloads)


\* ------------------------------------------------------------ C38
\* ---- the numbers of the statistics
\* winRate is a binary floating-point number, rounded to nearest, ties to
\* even, after every operation.  The format is scaled down: MantissaBits
\* significant bits (53 in a double) on a grid of 2^-GridBits; the integer x
\* stands for x / 2^GridBits.
MantissaBits == 8
GridBits == 12

RECURSIVE Pow2(_)
Pow2(n) == IF n = 0 THEN 1 ELSE 2 * Pow2(n - 1)

\* 1.0, and the least number with more than MantissaBits bits.
Unit == Pow2(GridBits)
MantissaEnd == Pow2(MantissaBits)

\* The number n as a float (exact for the counts that occur).
Whole(n) == n * Unit

RECURSIVE Quantum(_, _)
\* y times the weight of the last bit kept of x / y: the least q = y * 2^e
\* with x / q below MantissaEnd.
Quantum(x, q) == IF x \div q < MantissaEnd THEN q ELSE Quantum(x, 2 * q)

\* The float nearest to n / d grid units: round to nearest, ties to even.
RoundTo(n, d) ==
    Only({ Only({ (IF 2 * (x % q) > q \/ (2 * (x % q) = q /\ (x \div q) % 2 = 1)
                   THEN (x \div q) + 1 ELSE x \div q) * (q \div y) :
                  q \in {Quantum(x, y)} }) :
           x \in {n}, y \in {d} })

FAdd(a, b) == RoundTo(a + b, 1)
FMul(a, b) == RoundTo(a * b, Unit)
FDiv(a, b) == RoundTo(a * Unit, b)

\* EQUAL_SLOT_PROBABILITY = 1 / 6
EQUAL_SLOT_PROBABILITY == FDiv(Whole(1), Whole(6))

\* calculateEmpiricalWinRates(races): (wins + 0.1) / (total + 0.6) per slot
\* over the records with a winningSlot, 1 / 6 if there is none.  The literals
\* 0.1 and 0.6 are the floats nearest to 1 / 10 and 6 / 10.
calculateEmpiricalWinRates(races) ==
    LET known == { k \in 1..Len(races) : races[k].winningSlot # Null }
    IN  [s \in 1..NumSlots |->
            IF known = {} THEN EQUAL_SLOT_PROBABILITY
            ELSE FDiv(FAdd(Whole(Cardinality({ k \in known : races[k].winningSlot = s })),
                           FDiv(Whole(1), Whole(10))),
                      FAdd(Whole(Cardinality(known)), FDiv(Whole(6), Whole(10))))]

\* The config of a run: config.empiricalWinRates is set from the records
\* loaded as history, priorWeight is 10.0.
ConfigOf(races) ==
    [ empiricalWinRates |-> calculateEmpiricalWinRates(races), priorWeight |-> Whole(10) ]

\* smooth(wins, total, slot) = (wins + alpha * prior) / (total + alpha)
smooth(config, wins, total, slot) ==
    FDiv(FAdd(Whole(wins), FMul(config.priorWeight, config.empiricalWinRates[slot])),
         FAdd(Whole(total), config.priorWeight))

\* ---- the maps of StatsResult
\* { occurrences: 0, wins: 0, winRate }
NewStat(winRate) == [occurrences |-> 0, wins |-> 0, winRate |-> winRate]

\* occurrences++; if (s === winningSlot) wins++
Counted1(stat, won) ==
    [stat EXCEPT !.occurrences = @ + 1, !.wins = IF won THEN @ + 1 ELSE @]

\* ...; winRate = smooth(wins, occurrences, s)
Smoothed(stat, config, s) ==
    [stat EXCEPT !.winRate = smooth(config, stat.wins, stat.occurrences, s)]

\* map[key] = {}; for each slot map[key][s] = { 0, 0, winRate(s) }, if the map
\* has no entry for key.
WithEntry(map, key, winRate) ==
    IF key \in DOMAIN map THEN map
    ELSE [k \in DOMAIN map \cup {key} |->
            IF k = key THEN [s \in 1..NumSlots |-> NewStat(winRate[s])] ELSE map[k]]

\* One record in the loops of calculateStats and updateStats, up to the
\* counts: the entries of the record's venue and round are created with the
\* given winRate if they are missing, then for every slot the entries of the
\* slot, of the bucket of the slot's payout, of the venue (if the record has
\* one) and of the round (if it is 1, 2 or 3) are advanced.
CountRace(maps, r, winRate) ==
    LET venueMap == IF r.venue # "" THEN WithEntry(maps.venueMap, r.venue, winRate)
                    ELSE maps.venueMap
        roundMap == WithEntry(maps.roundMap, r.raceNumber, winRate)
        won(s)   == s = r.winningSlot
    IN  [ slotMap   |-> [s \in 1..NumSlots |-> Counted1(maps.slotMap[s], won(s))],
          bucketMap |-> [s \in 1..NumSlots |->
                            [b \in DOMAIN maps.bucketMap[s] |->
                                IF b = getPayoutBucket(r.payouts[s], s)
                                THEN Counted1(maps.bucketMap[s][b], won(s))
                                ELSE maps.bucketMap[s][b]]],
          venueMap  |-> [v \in DOMAIN venueMap |->
                            IF v = r.venue
                            THEN [s \in 1..NumSlots |-> Counted1(venueMap[v][s], won(s))]
                            ELSE venueMap[v]],
          roundMap  |-> [n \in DOMAIN roundMap |->
                            IF n = r.raceNumber /\ r.raceNumber >= 1 /\ r.raceNumber <= 3
                            THEN [s \in 1..NumSlots |-> Counted1(roundMap[n][s], won(s))]
                            ELSE roundMap[n]] ]

\* The maps calculateStats starts from: every slot and bucket at zero.
ZeroMaps ==
    [ slotMap   |-> [s \in 1..NumSlots |-> NewStat(0)],
      bucketMap |-> [s \in 1..NumSlots |-> [b \in 0..2 |-> NewStat(0)]],
      venueMap  |-> << >>,
      roundMap  |-> << >> ]

RECURSIVE Accumulate(_, _)
\* The accumulation loop of calculateStats: records without winningSlot or
\* winningPayout are skipped; entries are created with winRate 0.
Accumulate(maps, allRaces) ==
    IF allRaces = <<>> THEN maps
    ELSE Only({ Accumulate(counted, Tail(allRaces)) :
                counted \in {IF \/ Head(allRaces).winningSlot = Null
                                \/ Head(allRaces).winningPayout = NullPayout
                             THEN maps
                             ELSE CountRace(maps, Head(allRaces),
                                            [s \in 1..NumSlots |-> 0])} })

\* calculateStats(allRaces, config) with its maps: the counts, then the
\* winRate of every entry of every map from smooth.
calculateStatsMaps(allRaces, config) ==
    Only({ [ slotMap   |-> [s \in 1..NumSlots |-> Smoothed(counts.slotMap[s], cfg, s)],
             bucketMap |-> [s \in 1..NumSlots |->
                               [b \in DOMAIN counts.bucketMap[s] |->
                                   Smoothed(counts.bucketMap[s][b], cfg, s)]],
             venueMap  |-> [v \in DOMAIN counts.venueMap |->
                               [s \in 1..NumSlots |-> Smoothed(counts.venueMap[v][s], cfg, s)]],
             roundMap  |-> [n \in DOMAIN counts.roundMap |->
                               [s \in 1..NumSlots |-> Smoothed(counts.roundMap[n][s], cfg, s)]],
             lastWinningSlot |-> IF allRaces = <<>> THEN Null
                                 ELSE allRaces[Len(allRaces)].winningSlot ] :
           counts \in {Accumulate(ZeroMaps, allRaces)}, cfg \in {config} })

\* Mutant: a new entry starts from the smoothed zero counts.
priorOfSmoothed(config) == [s \in 1..NumSlots |-> smooth(config, 0, 0, s)]

\* const prior = config.empiricalWinRates?.[s] ?? EQUAL_SLOT_PROBABILITY
priorOf(config) == config.empiricalWinRates

\* updateStats(stats, r, config) with its maps: nothing for a record without
\* winningSlot or winningPayout; else the entries of the record's venue and
\* round are created with the prior as winRate if they are missing, and every
\* entry that is advanced gets its winRate from smooth of its new counts.
updateStatsMaps(stats, r, config) ==
    IF r.winningSlot = Null \/ r.winningPayout = NullPayout THEN stats
    ELSE Only({ [ slotMap   |-> [s \in 1..NumSlots |-> Smoothed(maps.slotMap[s], cfg, s)],
                  bucketMap |-> [s \in 1..NumSlots |->
                                    [b \in DOMAIN maps.bucketMap[s] |->
                                        IF b = getPayoutBucket(r.payouts[s], s)
                                        THEN Smoothed(maps.bucketMap[s][b], cfg, s)
                                        ELSE maps.bucketMap[s][b]]],
                  venueMap  |-> [v \in DOMAIN maps.venueMap |->
                                    IF v = r.venue
                                    THEN [s \in 1..NumSlots |->
                                             Smoothed(maps.venueMap[v][s], cfg, s)]
                                    ELSE maps.venueMap[v]],
                  roundMap  |-> [n \in DOMAIN maps.roundMap |->
                                    IF n = r.raceNumber /\ r.raceNumber >= 1
                                                       /\ r.raceNumber <= 3
                                    THEN [s \in 1..NumSlots |->
                                             Smoothed(maps.roundMap[n][s], cfg, s)]
                                    ELSE maps.roundMap[n]],
                  lastWinningSlot |-> r.winningSlot ] :
                maps \in { CountRace(stats, r, priorOf(cfg)) : cfg \in {config} },
                cfg \in {config} })

\* ---- the statistics on their own: an initial history, then reveal steps
MaxHistory == 2

\* The records: a win at venue A in round 1, a win in round 4 of a record
\* without venue, a win at venue B in round 2, a pending record.
StatRaces ==
    { [winningSlot |-> 1, winningPayout |-> 50, venue |-> "A", raceNumber |-> 1,
       payouts |-> << 50, 60, 100, 50, 60, 100 >>],
      [winningSlot |-> 2, winningPayout |-> 60, venue |-> "", raceNumber |-> 4,
       payouts |-> << 100, 60, 50, 100, 60, 50 >>],
      [winningSlot |-> 2, winningPayout |-> 100, venue |-> "B", raceNumber |-> 2,
       payouts |-> << 60, 100, 50, 60, 100, 50 >>],
      [winningSlot |-> Null, winningPayout |-> NullPayout, venue |-> "B", raceNumber |-> 2,
       payouts |-> << 50, 60, 100, 50, 60, 100 >>] }

\* if (!isPending) updateStats(currentStats, currentRace, config);
\* history.push(currentRace)
StatsReveal ==
    /\ pc = "stats"
    /\ Len(history) - Len(previousMonthsRaces) < NumTargets
    /\ \E currentRace \in StatRaces :
          /\ currentStats' = IF currentRace.winningSlot # Null
                             THEN updateStatsMaps(currentStats, currentRace,
                                                  ConfigOf(previousMonthsRaces))
                             ELSE currentStats
          /\ history' = pushHistory(history, currentRace)
    /\ UNCHANGED << ensembleSize, previousMonthsRaces, targets, sequence, sharedBuf, i, j,
                    ensemblePromises, allEnsemblePredictions, aggregatedProbs, decisions,
                    bufWritten, pc, pool, outbox, terminated, payloads, future, failed,
                    abandoned, executed, outOfOrder, heap, engine >>
    /\ UNCHANGED randomPool

\* runBacktest up to the loop, as far as the statistics go: history is a copy
\* of the loaded records, currentStats = calculateStats(history, config).
StatsInit ==
    /\ ensembleSize = 0
    /\ previousMonthsRaces \in SeqsUpTo(StatRaces, MaxHistory)
    /\ targets = <<>>
    /\ history = previousMonthsRaces
    /\ sequence = <<>>
    /\ sharedBuf = <<>>
    /\ currentStats = calculateStatsMaps(history, ConfigOf(previousMonthsRaces))
    /\ pc = "stats"
    /\ InitCommon
    /\ randomPool = NoRandomPool

StatsNext == StatsReveal

StatsSpec == StatsInit /\ [][StatsNext]_vars

\* C38 (incremental statistics equal batch statistics), as claimed: after any
\* number of reveal steps every slot, bucket, venue and round entry of the
\* running statistics has the occurrences, wins and winRate that
\* calculateStats computes from the whole current history.
C38_IncrementalEqualsBatch ==
    pc = "stats" =>
        \A batch \in {calculateStatsMaps(history, ConfigOf(previousMonthsRaces))} :
            /\ currentStats.slotMap = batch.slotMap
            /\ currentStats.bucketMap = batch.bucketMap
            /\ currentStats.venueMap = batch.venueMap
            /\ currentStats.roundMap = batch.roundMap


\* ------------------------------------------------------------ C39
\* C39 (shared buffer capacity): throughout a run the shared buffer has room
\* for the initial sequence plus one code per target record, the sequence
\* has grown by at most one code per revealed record and so never exceeds
\* that capacity, and while tasks are awaited the view they were handed has
\* the length of the sequence and holds exactly the sequence.
C39_SequenceFitsBuffer ==
    pc \in {"loop", "await", "decide", "reveal", "done"} =>
        /\ Len(sharedBuf) = Len(FilterMapCodes(previousMonthsRaces)) + Len(targets)
        /\ Len(sequence) <= Len(FilterMapCodes(previousMonthsRaces))
                            + (Len(history) - Len(previousMonthsRaces))
        /\ Len(history) - Len(previousMonthsRaces) <= Len(targets)
        /\ Len(sequence) <= Len(sharedBuf)
        /\ pc = "await" =>
              \A e \in 1..Len(ensemblePromises) :
                  /\ payloads[ensemblePromises[e]].len = Len(sequence)
                  /\ View(ensemblePromises[e]) = sequence

\* Witness: a finished run in which every target record added a code, so the
\* sequence fills the buffer to its last cell.
C39_Witness ==
    /\ pc = "done"
    /\ Len(targets) = NumTargets
    /\ Len(sequence) = Len(sharedBuf)
    /\ Len(sequence) > Len(FilterMapCodes(previousMonthsRaces))


\* ------------------------------------------------------------ C40
\* ---- RandomPool
\* The batch size is at most 32768.
MaxBatch == 32768

\* The sizes a pool is constructed with, and the calls made on one pool.
MaxPoolSize == 9
MaxRandomCalls == 4

\* Math.ceil(size / 8) * 8
AlignedSize(size) == ((size + 7) \div 8) * 8

\* Math.min(32768, alignedSize >> 3)
BatchSize(alignedSize) == Min(MaxBatch, alignedSize \div 8)

RECURSIVE FillCells(_, _, _, _)
\* The inner loop of refill: pool[i] = Math.random() for i = from .. end - 1.
\* A cell holds the number of the fill that wrote it; the values themselves
\* are not looked at.
FillCells(cells, from, end, nth) ==
    IF from >= end THEN cells
    ELSE FillCells([cells EXCEPT ![from + 1] = nth], from + 1, end, nth)

RECURSIVE FillBatches(_, _, _, _)
\* The outer loop of refill: batches of batchSize cells from `batch` on.
FillBatches(cells, batch, batchSize, nth) ==
    IF batch >= Len(cells) THEN cells
    ELSE FillBatches(FillCells(cells, batch, Min(batch + batchSize, Len(cells)), nth),
                     batch + batchSize, batchSize, nth)

\* refill(): every cell gets a new value, index = 0.
refill(rp) ==
    [rp EXCEPT !.pool = Only({FillBatches(rp.pool, 0, rp.batchSize, rp.fills + 1)}),
               !.fills = @ + 1,
               !.index = 0]

\* new RandomPool(size): a Float64Array of alignedSize zeros, then refill().
\* call, asked, before, refilled, read and out describe the latest call: what
\* it was, how many values it asked for, the index before it, whether it
\* refilled, the indexes it read and the values it returned.
NewRandomPool(size) ==
    [ refill([ pool      |-> [k \in 1..AlignedSize(size) |-> 0],
               batchSize |-> BatchSize(AlignedSize(size)),
               fills     |-> 0,
               index     |-> 0,
               call      |-> "new",
               asked     |-> 0,
               before    |-> 0,
               refilled  |-> FALSE,
               read      |-> {},
               out       |-> <<>>,
               calls     |-> 0 ])
      EXCEPT !.refilled = FALSE ]

\* (a ^ b) >>> 31 for two numbers below 2^31 in size: the sign bit of the
\* exclusive or.
XorSign(a, b) == IF (a < 0) = (b < 0) THEN 0 ELSE 1

\* Mutant: next refills only past the end.
nextNeedsRefillPastEnd(rp) ==
    XorSign(rp.index, Len(rp.pool)) = 0 /\ rp.index > Len(rp.pool)

\* (this.index ^ this.pool.length) >>> 31 === 0 && this.index >= this.pool.length
nextNeedsRefill(rp) ==
    XorSign(rp.index, Len(rp.pool)) = 0 /\ rp.index >= Len(rp.pool)

\* next(): refill if needed, return this.pool[this.index++], which is
\* undefined beyond the array.
next(rp) ==
    Only({ [at EXCEPT !.index = @ + 1,
                      !.call = "next", !.asked = 1, !.before = rp.index,
                      !.refilled = nextNeedsRefill(rp),
                      !.read = {at.index},
                      !.out = <<IF at.index >= 0 /\ at.index < Len(at.pool)
                               THEN at.pool[at.index + 1] ELSE "undefined">>,
                      !.calls = @ + 1] :
           at \in {IF nextNeedsRefill(rp) THEN refill(rp) ELSE rp} })

\* this.pool.subarray(begin, end): both ends are clamped to the array.
Subarray(cells, begin, end) ==
    SubSeq(cells, (IF begin < 0 THEN 0 ELSE Min(begin, Len(cells))) + 1,
                  IF end < 0 THEN 0 ELSE Min(end, Len(cells)))

\* nextBatch(count): refill if index + count > length, return the view
\* subarray(index, index + count), index += count.
nextBatch(rp, count) ==
    Only({ [at EXCEPT !.index = @ + count,
                      !.call = "nextBatch", !.asked = count, !.before = rp.index,
                      !.refilled = rp.index + count > Len(rp.pool),
                      !.read = { k \in 0..(Len(at.pool) - 1) :
                                     k >= at.index /\ k < at.index + count },
                      !.out = Subarray(at.pool, at.index, at.index + count),
                      !.calls = @ + 1] :
           at \in {IF rp.index + count > Len(rp.pool) THEN refill(rp) ELSE rp} })

\* A call of rng.next().
RandomNext ==
    /\ pc = "random"
    /\ randomPool.calls < MaxRandomCalls
    /\ randomPool' = next(randomPool)
    /\ UNCHANGED << ctlVars, bufWritten, pc, pool, outbox, terminated, payloads, future,
                    failed, abandoned, executed, outOfOrder, heap, engine >>

\* A call of rng.nextBatch(count) with count <= pool length.
RandomNextBatch ==
    /\ pc = "random"
    /\ randomPool.calls < MaxRandomCalls
    /\ \E count \in 0..Len(randomPool.pool) : randomPool' = nextBatch(randomPool, count)
    /\ UNCHANGED << ctlVars, bufWritten, pc, pool, outbox, terminated, payloads, future,
                    failed, abandoned, executed, outOfOrder, heap, engine >>

\* A pool just constructed, of any size.
RandomInit ==
    /\ ensembleSize = 0
    /\ previousMonthsRaces = <<>>
    /\ targets = <<>>
    /\ history = <<>>
    /\ sequence = <<>>
    /\ sharedBuf = <<>>
    /\ currentStats = EmptyStats
    /\ pc = "random"
    /\ InitCommon
    /\ randomPool \in { NewRandomPool(size) : size \in 1..MaxPoolSize }

RandomPoolNext == RandomNext \/ RandomNextBatch

RandomSpec == RandomInit /\ [][RandomPoolNext]_vars

\* The values the latest call needed were not left in the pool.
Insufficient == Len(randomPool.pool) - randomPool.before < randomPool.asked

\* C40 (random source bounds): after every sequence of next() calls and
\* nextBatch(count) calls with count <= pool length, the index is within
\* 0..pool length; every index the latest call read is below the pool length;
\* the call refilled the pool, and read from index 0 on, exactly when the
\* values left did not suffice, and otherwise read from where the index was;
\* it advanced the index by the number of values asked for; and it returned
\* exactly that many values, all of them written by the latest fill.
C40_RandomSourceBounds ==
    pc = "random" =>
        /\ randomPool.index \in 0..Len(randomPool.pool)
        /\ \A k \in randomPool.read : k >= 0 /\ k < Len(randomPool.pool)
        /\ randomPool.call # "new" =>
              \A first \in {IF Insufficient THEN 0 ELSE randomPool.before} :
                  /\ randomPool.refilled <=> Insufficient
                  /\ randomPool.read = { k \in 0..Len(randomPool.pool) :
                                            k >= first /\ k < first + randomPool.asked }
                  /\ randomPool.index = first + randomPool.asked
                  /\ Len(randomPool.out) = randomPool.asked
                  /\ \A k \in 1..Len(randomPool.out) :
                        randomPool.out[k] = randomPool.fills
        /\ \A k \in 1..Len(randomPool.pool) : randomPool.pool[k] = randomPool.fills

\* Witness: a call of next() at the end of the pool refilled it, for the
\* second time after construction.
C40_Witness ==
    /\ pc = "random"
    /\ randomPool.call = "next"
    /\ randomPool.refilled
    /\ randomPool.before = Len(randomPool.pool)
    /\ randomPool.fills >= 3

====
